---- MODULE Spec2Model ----
(***************************************************************************)
(* State-machine model of the article crawler (crawler.py), the store      *)
(* layer it writes through and the search facade reads through             *)
(* (database.py), and the article routes (routes.py).                      *)
(*                                                                         *)
(* A task is one coroutine: a periodic loop started with                   *)
(* start_periodic_crawling, a one-shot call of run_crawling_cycle or of    *)
(* run_crawling_cycle_all_sectors, or a direct call of                     *)
(* process_and_save_articles.                                              *)
(* A task's pc names the await expression it is standing at; one action is *)
(* the code that runs from one await to the next.  The article store is a  *)
(* remote service: the exact-title lookup and the insert are two separate  *)
(* requests, so other tasks and other clients of the store can act between *)
(* them.                                                                   *)
(***************************************************************************)
EXTENDS Integers, Sequences, FiniteSets, TLC

\* ------------------------------------------------------------------ bounds
MaxStore == 3        \* records the store accepts before every insert fails
MaxBatch == 2        \* longest batch handed to process_and_save_articles
MaxReport == 3       \* longest report text handed to the article builder
MaxExcess == 2       \* how far long title lines go below and above TITLE_LIMIT
MaxDate == 3         \* longest date text handed to format_prompt

\* ------------------------------------------------------- program constants
PACING_DELAY == 30        \* crawler.py:230  asyncio.sleep(30)
BACKOFF_DELAY == 60       \* crawler.py:264  asyncio.sleep(60)
CRAWL_INTERVAL == 86400   \* crawler.py:90   crawl_interval default
TITLE_LIMIT == 500        \* crawler.py:134  if len(title) > 500
TITLE_KEEP == 497         \* crawler.py:135  title[:497] + "..."

Tasks == {1, 2}
\* Texts are sequences of characters; the titles the batches are drawn from.
Titles == {<<"a">>, <<"b">>}
\* Python's None as a lookup result: the record no stored article equals.
NONE == [id |-> 0, title |-> "none", category |-> <<>>]

\* crawler.py:42-63, :94  SECTORS in insertion order
sector_keys == <<"technology", "finance">>
NSectors == Len(sector_keys)

\* ----------------------------------------------------------- article builder
\* Characters of report texts; str.strip() removes the whitespace ones.
Chars == {"#", " ", "\n", "a", "b"}
Whitespace == {" ", "\n"}
ReportTexts == UNION {[1..n -> Chars] : n \in 0..MaxReport}

\* A report that is not a string (write_report returned None), and the None
\* that _convert_report_to_article returns from its except branch.
NoReport == <<"None">>
NoArticle == [title |-> <<>>, content |-> <<>>, author |-> "None", category |-> <<>>]

RECURSIVE lstrip(_)
lstrip(s) == IF s # <<>> /\ Head(s) \in Whitespace THEN lstrip(Tail(s)) ELSE s

RECURSIVE rstrip(_)
rstrip(s) ==
    IF s # <<>> /\ s[Len(s)] \in Whitespace
    THEN rstrip(SubSeq(s, 1, Len(s) - 1))
    ELSE s

strip(s) == rstrip(lstrip(s))

\* crawler.py:129-130: split('\n')[0], the text before the first line break.
FirstLineIsWholeText(s) == s
FirstLine(s) ==
    IF \E i \in 1..Len(s) : s[i] = "\n"
    THEN SubSeq(s, 1, (CHOOSE i \in 1..Len(s) :
                          /\ s[i] = "\n"
                          /\ \A j \in 1..(i-1) : s[j] # "\n") - 1)
    ELSE s

\* crawler.py:133: title.replace('#', '')
IsNotHash(c) == c # "#"
RemoveHashes(s) == SelectSeq(s, IsNotHash)

\* crawler.py:134-135
TruncateKeepsLimit(title) ==
    IF Len(title) > TITLE_LIMIT
    THEN SubSeq(title, 1, TITLE_LIMIT) \o <<".", ".", ".">>
    ELSE title
Truncate(title) ==
    IF Len(title) > TITLE_LIMIT
    THEN SubSeq(title, 1, TITLE_KEEP) \o <<".", ".", ".">>
    ELSE title

\* crawler.py:65-67: get_current_date() on the day of the run.
current_date == <<"2", "0", "2", "5", "-", "0", "1", "-", "0", "1">>

\* crawler.py:43-63: SECTORS[key]["name"]
SectorName(k) ==
    IF sector_keys[k] = "technology"
    THEN <<"T", "e", "c", "h", "n", "o", "l", "o", "g", "y">>
    ELSE <<"F", "i", "n", "a", "n", "c", "e">>

\* crawler.py:130: f"{name} Sector Analysis - {date}"
FallbackTitle(k) ==
    SectorName(k) \o <<" ", "S", "e", "c", "t", "o", "r", " ", "A", "n", "a", "l", "y", "s", "i", "s", " ", "-", " ">>
                  \o current_date

\* crawler.py:125-150: _convert_report_to_article(report, sector) for the
\* sector with index k.  Only a report that is not a string reaches the
\* except branch.
convert_report_to_article(report, k) ==
    IF report = NoReport THEN NoArticle
    ELSE LET text == strip(report)
             first == FirstLine(text)
             title == IF strip(first) # <<>> THEN first ELSE FallbackTitle(k)
         IN [title |-> Truncate(strip(RemoveHashes(title))),
             content |-> text,
             author |-> "AI Research Assistant",
             category |-> SectorName(k)]

\* Reports with a long first line: n characters, "a" and "b" in turn, that may
\* follow a heading marker and may be followed by a body line.
LongLine(n) == [i \in 1..n |-> IF i % 2 = 1 THEN "a" ELSE "b"]
LongReports ==
    {pre \o LongLine(n) \o post :
        pre \in {<<>>, <<"#", " ">>},
        n \in (TITLE_LIMIT - MaxExcess)..(TITLE_LIMIT + MaxExcess),
        post \in {<<>>, <<"\n", "b">>}}

\* ------------------------------------------------------------ research query
\* crawler.py:34-39: TOPIC_PROMPT, cut at its three fields {date}, {sector}
\* and {topics}.
PromptHead ==
    <<"\n", "L", "a", "t", "e", "s", "t", " ", "a", "r", "t", "i", "c", "l",
      "e", "s", " ", "f", "r", "o", "m", " ", "t", "h", "i", "s", " ", "p",
      "a", "s", "t", " ", "d", "a", "y", " ">>
PromptBeforeSector == <<" ", "i", "n", " ", "t", "h", "e", " ">>
PromptBeforeTopics ==
    <<" ", "s", "e", "c", "t", "o", "r", ".", " ", "F", "o", "c", "u", "s",
      " ", "o", "n", " ">>
PromptTail ==
    <<".", " ", "\n", "I", "n", "c", "l", "u", "d", "e", " ", "n", "e", "w",
      "s", " ", "a", "b", "o", "u", "t", " ", "t", "h", "e", " ", "l", "a",
      "t", "e", "s", "t", " ", "n", "e", "w", "s", ",", " ", "b", "r", "e",
      "a", "k", "t", "h", "r", "o", "u", "g", "h", "s", ",", " ", "a", "n",
      "d", " ", "a", "p", "p", "l", "i", "c", "a", "t", "i", "o", "n", "s",
      " ", "i", "n", " ", "v", "a", "r", "i", "o", "u", "s", " ", "i", "n",
      "d", "u", "s", "t", "r", "i", "e", "s", ".", "\n", "P", "r", "o", "v",
      "i", "d", "e", " ", "a", " ", "o", "v", "e", "r", "v", "i", "e", "w",
      " ", "o", "f", " ", "t", "h", "e", " ", "a", "r", "t", "i", "c", "l",
      "e", "s", " ", "a", "n", "d", " ", "t", "h", "e", "i", "r", " ", "i",
      "m", "p", "l", "i", "c", "a", "t", "i", "o", "n", "s", " ", "f", "o",
      "r", " ", "t", "h", "e", "i", "r", " ", "s", "t", "o", "c", "k", "s",
      " ", "a", "n", "d", " ", "g", "l", "o", "b", "a", "l", " ", "m", "a",
      "r", "k", "e", "t", "s", ".", "\n", "T", "h", "e", " ", "a", "r", "t",
      "i", "c", "l", "e", "s", " ", "s", "h", "o", "u", "l", "d", " ", "b",
      "e", " ", "f", "r", "o", "m", " ", "r", "e", "p", "u", "t", "a", "b",
      "l", "e", " ", "s", "o", "u", "r", "c", "e", "s", " ", "a", "n", "d",
      " ", "i", "n", "c", "l", "u", "d", "e", " ", "a", " ", "s", "u", "m",
      "m", "a", "r", "y", " ", "o", "f", " ", "t", "h", "e", " ", "k", "e",
      "y", " ", "p", "o", "i", "n", "t", "s", ".", "\n">>

\* An argument left out of a call (Python's default None).
Omitted == <<"None">>

\* Sector keys format_prompt may be given: the ones of the registry, and one
\* that SECTORS does not hold (crawler.py:52-62 has it commented out).
RegistryKeys == {sector_keys[i] : i \in 1..NSectors}
SectorArgs == RegistryKeys \cup {"energy"}
KeyIndex(key) == CHOOSE i \in 1..NSectors : sector_keys[i] = key

\* crawler.py:43-63: SECTORS[key]["topics"]
SectorTopics(key) ==
    IF key = "technology"
    THEN <<"A", "I", ",", " ", "m", "a", "c", "h", "i", "n", "e", " ", "l", "e",
           "a", "r", "n", "i", "n", "g", ",", " ", "s", "e", "m", "i", "c", "o",
           "n", "d", "u", "c", "t", "o", "r", "s", ",", " ", "c", "l", "o", "u",
           "d", " ", "c", "o", "m", "p", "u", "t", "i", "n", "g", ",", " ", "c",
           "y", "b", "e", "r", "s", "e", "c", "u", "r", "i", "t", "y", ",", " ",
           "f", "i", "n", "t", "e", "c", "h">>
    ELSE <<"f", "i", "n", "t", "e", "c", "h", ",", " ", "d", "i", "g", "i", "t",
           "a", "l", " ", "b", "a", "n", "k", "i", "n", "g", ",", " ", "c", "r",
           "y", "p", "t", "o", "c", "u", "r", "r", "e", "n", "c", "y", ",", " ",
           "b", "l", "o", "c", "k", "c", "h", "a", "i", "n", ",", " ", "i", "n",
           "v", "e", "s", "t", "m", "e", "n", "t", " ", "t", "r", "e", "n", "d",
           "s">>

\* crawler.py:79: sector.title() of a key that SECTORS does not hold.
TitleCase(key) == <<"E", "n", "e", "r", "g", "y">>

\* crawler.py:74-77: the registry topics of the sector unless the caller gave
\* topics; a fixed phrase for a sector the registry does not hold.
PromptTopicsIgnoresRegistry(sector, topics) ==
    IF topics = Omitted
    THEN <<"l", "a", "t", "e", "s", "t", " ", "d", "e", "v", "e", "l", "o", "p",
           "m", "e", "n", "t", "s", " ", "a", "n", "d", " ", "t", "r", "e", "n",
           "d", "s">>
    ELSE topics
PromptTopics(sector, topics) ==
    IF topics = Omitted /\ sector \in RegistryKeys THEN SectorTopics(sector)
    ELSE IF topics = Omitted
         THEN <<"l", "a", "t", "e", "s", "t", " ", "d", "e", "v", "e", "l", "o", "p",
                "m", "e", "n", "t", "s", " ", "a", "n", "d", " ", "t", "r", "e", "n",
                "d", "s">>
         ELSE topics

\* crawler.py:69-85: format_prompt(sector, topics, date)
format_prompt(sector, topics, date) ==
    PromptHead
       \o (IF date = Omitted THEN current_date ELSE date)
       \o PromptBeforeSector
       \o (IF sector \in RegistryKeys THEN SectorName(KeyIndex(sector))
                                       ELSE TitleCase(sector))
       \o PromptBeforeTopics
       \o PromptTopics(sector, topics)
       \o PromptTail

\* Arguments the calls of format_prompt are drawn from.
DateTexts == UNION {[1..n -> {"0", "1"}] : n \in 1..MaxDate}
TopicTexts == {<<"o", "i", "l">>, <<"A", "I">>, <<"g", "o", "l", "d">>}

\* An article as handed to process_and_save_articles: its title, its category
\* and whether all of title, content, author, category are present.
\* The batches hold articles of one category: the pipeline hands the category
\* to the store and never reads it.
BatchCategories == {SectorName(1)}
Article == [title : Titles, category : BatchCategories, complete : BOOLEAN]

Batches == UNION {[1..n -> Article] : n \in 1..MaxBatch}

\* ------------------------------------------------------------------- store
\* database.py:91-104 with exact_match=True: the first record whose title
\* equals the argument, or NONE.
get_article_by_title(s, title) ==
    IF \E i \in 1..Len(s) : s[i].title = title
    THEN s[CHOOSE i \in 1..Len(s) :
               /\ s[i].title = title
               /\ \A j \in 1..(i-1) : s[j].title # title]
    ELSE NONE

\* crawler.py:163-166: the dedup test of process_and_save_articles.
DedupHitAlwaysMiss(s, title) == FALSE
DedupHit(s, title) == get_article_by_title(s, title) # NONE

\* database.py:74: insert of one record; the store assigns the id.  A record
\* is kept as its id, title and category.
InsertRecordKeepsId(s, title, category) ==
    Append(s, [id |-> 1, title |-> title, category |-> category])
InsertRecordOverFirst(s, title, category) ==
    IF s = <<>> THEN <<[id |-> 1, title |-> title, category |-> category]>>
    ELSE [s EXCEPT ![1] = [id |-> 1, title |-> title, category |-> category]]
InsertRecord(s, title, category) ==
    Append(s, [id |-> Len(s) + 1, title |-> title, category |-> category])

CountTitle(s, title) == Cardinality({i \in 1..Len(s) : s[i].title = title})

\* ------------------------------------------------------------ search facade
\* PostgreSQL ILIKE compares without regard to case.
Lower(c) ==
    CASE c = "A" -> "a"
      [] c = "B" -> "b"
      [] c = "F" -> "f"
      [] c = "T" -> "t"
      [] OTHER -> c
LowerText(text) == [i \in 1..Len(text) |-> Lower(text[i])]

\* PostgreSQL LIKE: "%" in the pattern stands for any text, "_" for any one
\* character, every other character for itself.
RECURSIVE Like(_, _)
Like(text, pattern) ==
    IF pattern = <<>> THEN text = <<>>
    ELSE IF Head(pattern) = "%"
         THEN \E n \in 0..Len(text) :
                 Like(SubSeq(text, n + 1, Len(text)), Tail(pattern))
         ELSE /\ text # <<>>
              /\ Head(pattern) \in {"_", Head(text)}
              /\ Like(Tail(text), Tail(pattern))
ILike(text, pattern) == Like(LowerText(text), LowerText(pattern))

\* database.py:98, :108: the pattern f'%{title}%' handed to ilike.
TitlePattern(title) == <<"%">> \o title \o <<"%">>

\* The first limit rows of a result (.limit(limit), match_count).
Limit(rows, limit) == SubSeq(rows, 1, IF limit < Len(rows) THEN limit ELSE Len(rows))

\* database.py:84: select('*').eq('id', article_id)
SelectById(s, article_id) == SelectSeq(s, LAMBDA r : r.id = article_id)

\* database.py:93-98: select('*').eq('title', title), or
\* select('*').ilike('title', f'%{title}%')
SelectByTitle(s, title, exact_match) ==
    IF exact_match
    THEN SelectSeq(s, LAMBDA r : r.title = title)
    ELSE SelectSeq(s, LAMBDA r : ILike(r.title, TitlePattern(title)))

\* database.py:108: select('*').ilike('title', f'%{title}%').limit(limit)
SelectTitleLike(s, title, limit) ==
    Limit(SelectSeq(s, LAMBDA r : ILike(r.title, TitlePattern(title))), limit)

\* database.py:118: select('*').limit(limit)
SelectAll(s, limit) == Limit(s, limit)

\* database.py:151: select('*').eq('category', category).limit(limit)
SelectByCategoryIgnoresCase(s, category, limit) ==
    Limit(SelectSeq(s, LAMBDA r : LowerText(r.category) = LowerText(category)), limit)
SelectByCategory(s, category, limit) ==
    Limit(SelectSeq(s, LAMBDA r : r.category = category), limit)

\* database.py:161-163: the set of the category column's values.
SelectCategories(s) == {s[i].category : i \in 1..Len(s)}

\* database.py:138, :172: match_threshold 0.78, in hundredths.
MATCH_THRESHOLD == 78

\* The similarity the store computes between the query's embedding and a
\* record's, in hundredths: closeness of meaning stands in as closeness of
\* the title to the query text.
Similarity(query, r) ==
    IF LowerText(r.title) = LowerText(query) THEN 100
    ELSE IF ILike(r.title, TitlePattern(query)) THEN 90
    ELSE 50
Scores == {100, 90, 50}

\* The rows in descending order of similarity to the query.
MaxOf(S) == CHOOSE x \in S : \A y \in S : y <= x
RECURSIVE BySimilarity(_, _, _)
BySimilarity(rows, query, scores) ==
    IF scores = {} THEN <<>>
    ELSE LET top == MaxOf(scores)
         IN SelectSeq(rows, LAMBDA r : Similarity(query, r) = top)
            \o BySimilarity(rows, query, scores \ {top})

\* The store function hybrid_search_articles(query_embedding, match_threshold,
\* match_count, category_filter): the records more similar to the query than
\* the threshold, of the filter's category when a filter is given, most similar
\* first, match_count of them at most.
NoFilter == <<"N", "U", "L", "L">>
hybrid_search_articles(s, query, match_threshold, match_count, category_filter) ==
    Limit(BySimilarity(
              SelectSeq(s, LAMBDA r :
                  /\ Similarity(query, r) > match_threshold
                  /\ category_filter # NoFilter => r.category = category_filter),
              query, Scores),
          match_count)

\* The store function match_articles(query_embedding, match_threshold,
\* match_count): the same without a category filter.
match_articles(s, query, match_threshold, match_count) ==
    hybrid_search_articles(s, query, match_threshold, match_count, NoFilter)

\* database.py:176-178: if category: search_params['category_filter'] = category
CategoryFilterDropped(category) == NoFilter
CategoryFilter(category) ==
    IF category # Omitted /\ category # <<>> THEN category ELSE NoFilter

\* database.py:173: 'match_count': limit
MatchCountUnlimited(limit) == MaxStore + 1
MatchCount(limit) == limit

\* What goes wrong between the facade and its services: the store cannot be
\* reached (execute() raises), its response carries no data, the rows carry
\* an embeddings text that does not parse, or the embedding service fails.
StoreFaults == {"unreachable", "no_data", "bad_embeddings"}
SearchFaults == StoreFaults \cup {"embedding_error"}

\* database.py:82-191: what a facade method makes of the store's answer.
\*   "first": if result.data: return the converted result.data[0]; return None
\*   "list":  for article in result.data: ...
\*   "rpc":   generate_embeddings first; for article in (result.data or []): ...
\* database.py:47-62 turns an embeddings text that does not parse into None.
Facade(kind, fault, rows) ==
    LET out(status, rs, emb, q) ==
            [status |-> status, rows |-> rs, embeddings |-> emb, queries |-> q]
    IN CASE fault = "embedding_error" -> out("error", <<>>, "list", 0)
         [] fault = "unreachable" -> out("error", <<>>, "list", 1)
         [] fault = "no_data" ->
               IF kind = "first" THEN out("none", <<>>, "list", 1)
               ELSE IF kind = "list" THEN out("error", <<>>, "list", 1)
               ELSE out("ok", <<>>, "list", 1)
         [] OTHER ->
               LET emb == IF fault = "bad_embeddings" THEN "None" ELSE "list"
               IN IF kind = "first"
                  THEN IF rows = <<>> THEN out("none", <<>>, "list", 1)
                       ELSE out("ok", <<rows[1]>>, emb, 1)
                  ELSE out("ok", rows, emb, 1)

\* routes.py:25-105: a record or a list answers 200; None answers 404
\* "Article not found" (the HTTPException is raised again as it is); any
\* other exception answers 500.
HttpNotFoundBecomes500(status) == IF status = "ok" THEN 200 ELSE 500
Http(status) ==
    IF status = "ok" THEN 200 ELSE IF status = "none" THEN 404 ELSE 500

VARIABLES
    store,        \* the articles table: a sequence of records
    is_running,   \* ArticleCrawler.is_running
    task,         \* per task: position and locals
    hist,         \* per task: history of stop/cancel calls (not program state)
    log,          \* the two most recent ingest outcomes of direct calls (history)
    crawler,      \* ArticleCrawler.crawl_interval and .current_sector_index
    built,        \* one call of _convert_report_to_article: arguments and result
    prompt,       \* one call of format_prompt: arguments and result
    reply         \* the last request to the search facade and its answer

vars == <<store, is_running, task, hist, log, crawler, built, prompt, reply>>
aux == <<crawler, built, prompt, reply>>

\* What a call hands back: Python's None, or a number.
PyNone == [kind |-> "None", value |-> 0]
PyInt(n) == [kind |-> "int", value |-> n]

IdleTask ==
    [pc |-> "idle", caller |-> "none", sector |-> 0, articles |-> <<>>,
     idx |-> 0, saved_count |-> 0, total_saved |-> 0,
     timer_dur |-> 0, timer_el |-> 0, cancelling |-> FALSE, retval |-> PyNone]

NoStop == [pc |-> "none", sector |-> 0]

\* History of one loop: where the first stop_crawling() call found it, whether
\* a stop came during the inter-cycle wait, whether one came during the sleep
\* it is in, whether a cancellation was requested, and how many articles the
\* current cycle (or call) has found and finished processing.  For the
\* current cycle (or call) also: the research calls started and the ones that
\* raised, the articles with all required fields, the lookups, embedding calls
\* and inserts performed, how the latest lookup or db.create_article call
\* ended, and the size of the store when it began.
IdleHist ==
    [first_stop |-> NoStop, stop_in_interval |-> FALSE, stop_in_sleep |-> FALSE,
     cancelled |-> FALSE, found |-> 0, processed |-> 0,
     researched |-> 0, errors |-> 0, complete |-> 0,
     lookups |-> 0, embeds |-> 0, inserts |-> 0, last |-> "none", len0 |-> 0]

\* The history at the start of a cycle, whose first research call begins.
CycleHist(h, s) ==
    [h EXCEPT !.found = 0, !.processed = 0, !.researched = 1, !.errors = 0,
              !.complete = 0, !.lookups = 0, !.embeds = 0, !.inserts = 0,
              !.last = "none", !.len0 = Len(s)]

NotBuilt == [report |-> <<>>, sector |-> 0, article |-> NoArticle, done |-> FALSE]
NoPrompt == [sector |-> "none", topics |-> Omitted, date |-> Omitted,
             text |-> <<>>, done |-> FALSE]

NoReply ==
    [op |-> "none", text |-> <<>>, category |-> Omitted, exact_match |-> TRUE,
     limit |-> 0, id |-> 0, fault |-> "ok", status |-> "none", http |-> 0,
     rows |-> <<>>, categories |-> {}, embeddings |-> "list", queries |-> 0,
     done |-> FALSE]

Init ==
    /\ store = <<>>
    /\ is_running = FALSE          \* crawler.py:92
    /\ task = [t \in Tasks |-> IdleTask]
    /\ hist = [t \in Tasks |-> IdleHist]
    /\ log = <<>>
    /\ crawler = [crawl_interval |-> CRAWL_INTERVAL,      \* crawler.py:90
                  current_sector_index |-> 0]             \* crawler.py:93
    /\ built = NotBuilt
    /\ prompt = NoPrompt
    /\ reply = NoReply

\* ----------------------------------------------------------- ingest history
Entry(title, outcome, before, after) ==
    [title |-> title, outcome |-> outcome, before |-> before, after |-> after]

\* The history keeps the two most recent ingest outcomes.
KeepLast(s) ==
    IF Len(s) <= 2 THEN s ELSE SubSeq(s, Len(s) - 1, Len(s))

\* The history follows the direct calls of process_and_save_articles.
Record(r, s) == IF r.caller = "direct" THEN KeepLast(s) ELSE log

\* crawler.py:158-161: index of the first article at or after i that has all
\* required fields (Len+1 when there is none); the ones before it are skipped.
NextCompleteSkipsNothing(arts, i) == i
NextComplete(arts, i) ==
    IF \E j \in i..Len(arts) : arts[j].complete
    THEN CHOOSE j \in i..Len(arts) :
             /\ arts[j].complete
             /\ \A k \in i..(j-1) : ~arts[k].complete
    ELSE Len(arts) + 1

MissingEntries(arts, i, s) ==
    [k \in 1..(NextComplete(arts, i) - i) |->
        Entry(arts[i + k - 1].title, "missing",
              CountTitle(s, arts[i + k - 1].title),
              CountTitle(s, arts[i + k - 1].title))]

\* ------------------------------------------------------------ continuations
SleepReturnsAtOnce(r, pos, dur) ==
    [r EXCEPT !.pc = pos, !.timer_dur = 0, !.timer_el = 0]
Sleep(r, pos, dur) ==
    [r EXCEPT !.pc = pos, !.timer_dur = dur, !.timer_el = 0]

\* Who runs the cycle: the periodic loop ("single", "all") or a one-shot call
\* of the cycle function ("test_single", "test_all").
LoopCallers == {"single", "all"}
TestCallers == {"test_single", "test_all"}
AllSectorCallers == {"all", "test_all"}

\* The cycle function returns.  Neither run_crawling_cycle nor
\* run_crawling_cycle_all_sectors has a return statement: the counts are only
\* logged (crawler.py:206, 236).  In the loop the inter-cycle sleep follows
\* (crawler.py:257); a one-shot caller gets None back.
CycleCompleteExitsWhenStopped(r) ==
    IF r.caller \in LoopCallers
    THEN IF is_running THEN Sleep(r, "interval", crawler.crawl_interval)
         ELSE [r EXCEPT !.pc = "exited"]
    ELSE [r EXCEPT !.pc = "returned", !.retval = PyNone]
CycleComplete(r) ==
    IF r.caller \in LoopCallers
    THEN Sleep(r, "interval", crawler.crawl_interval)
    ELSE [r EXCEPT !.pc = "returned", !.retval = PyNone]

\* What follows the return of process_and_save_articles (or an empty result of
\* crawl_for_articles) in the caller.
\*   direct:       the call returns saved_count            crawler.py:189
\*   single cycle: run_crawling_cycle returns              crawler.py:204-206
\*   all sectors:  the pacing delay of the sector loop     crawler.py:223-230
AfterSectorSkipsLastPacing(r) ==
    CASE r.caller = "direct" ->
             [r EXCEPT !.pc = "returned", !.articles = <<>>, !.idx = 0,
                       !.retval = PyInt(r.saved_count)]
      [] r.caller \in {"single", "test_single"} ->
             CycleComplete([r EXCEPT !.articles = <<>>, !.idx = 0])
      [] r.caller \in AllSectorCallers ->
             IF r.sector = NSectors
             THEN CycleComplete([r EXCEPT !.total_saved = @ + r.saved_count,
                                          !.saved_count = 0, !.articles = <<>>,
                                          !.idx = 0])
             ELSE Sleep([r EXCEPT !.total_saved = @ + r.saved_count,
                                  !.saved_count = 0, !.articles = <<>>, !.idx = 0],
                        "pacing", PACING_DELAY)
AfterSector(r) ==
    CASE r.caller = "direct" ->
             [r EXCEPT !.pc = "returned", !.articles = <<>>, !.idx = 0,
                       !.retval = PyInt(r.saved_count)]
      [] r.caller \in {"single", "test_single"} ->
             CycleComplete([r EXCEPT !.articles = <<>>, !.idx = 0])
      [] r.caller \in AllSectorCallers ->
             Sleep([r EXCEPT !.total_saved = @ + r.saved_count,
                             !.saved_count = 0, !.articles = <<>>, !.idx = 0],
                   "pacing", PACING_DELAY)

\* crawler.py:117-123: crawl_for_articles catches what the research provider
\* raises and returns [], so the sector ends with no article.
OnResearchErrorAbortsCycle(r) == CycleComplete([r EXCEPT !.articles = <<>>, !.idx = 0])
OnResearchErrorIngestsPlaceholder(r) ==
    [r EXCEPT !.pc = "lookup", !.idx = 1,
              !.articles = <<[title |-> <<"a">>, category |-> SectorName(r.sector),
                              complete |-> TRUE]>>]
OnResearchError(r) == AfterSector(r)

\* crawler.py:156-161: the for loop resumes at article i; articles with missing
\* fields are skipped without store access, the next complete one is looked up.
NextItem(r, i) ==
    LET j == NextComplete(r.articles, i) IN
    IF j > Len(r.articles)
    THEN AfterSector([r EXCEPT !.idx = Len(r.articles) + 1])
    ELSE [r EXCEPT !.pc = "lookup", !.idx = j]

\* crawler.py:185-187: except Exception: log, continue -- the for loop goes
\* on with the next article.
OnItemErrorAbortsBatch(r) == AfterSector(r)
OnItemErrorFailsOpen(r) == [r EXCEPT !.pc = "create"]
OnItemError(r) == NextItem(r, r.idx + 1)

\* ------------------------------------------------------------------- faults
\* What the collaborators may do wrong: the exact-title lookup raises, the
\* embedding provider raises, the insert raises or returns no record, the
\* research provider raises.
AllFaults == {"lookup_error", "embedding_error", "store_error", "research_error"}
NoFaults == {}

\* Outcomes of db.create_article: a full store accepts no further record.
CreateOutcomes(s, faults) ==
    (IF Len(s) < MaxStore THEN {"ok"} ELSE {"store_error"})
        \cup (faults \cap {"embedding_error", "store_error"})

\* ------------------------------------------------- process_and_save_articles
\* crawler.py:152-161: a direct call with a batch; runs to the first lookup.
process_and_save_articles(t, batch) ==
    /\ task[t].pc \in {"idle", "returned"}
    /\ LET r == [task[t] EXCEPT !.caller = "direct", !.articles = batch,
                                !.saved_count = 0, !.idx = 0]
       IN task' = [task EXCEPT ![t] = NextItem(r, 1)]
    /\ hist' = [hist EXCEPT ![t] = [IdleHist EXCEPT
                    !.found = Len(batch),
                    !.processed = NextComplete(batch, 1) - 1,
                    !.complete = Cardinality({i \in 1..Len(batch) : batch[i].complete}),
                    !.len0 = Len(store)]]
    /\ log' = KeepLast(log \o MissingEntries(batch, 1, store))
    /\ UNCHANGED <<store, is_running>>
    /\ UNCHANGED aux

\* crawler.py:163-166 with database.py:91-104: the exact-title lookup returns.
\* A hit skips the article; an error is caught at crawler.py:185-187.
LookupReturns(t, faults) ==
    /\ task[t].pc = "lookup"
    /\ LET r == task[t]
           a == r.articles[r.idx]
           n == CountTitle(store, a.title)
           skip(outcome) ==
               /\ task' = [task EXCEPT ![t] =
                              IF outcome = "lookup_error" THEN OnItemError(r)
                              ELSE NextItem(r, r.idx + 1)]
               /\ hist' = [hist EXCEPT ![t] = [@ EXCEPT
                              !.lookups = @ + 1,
                              !.last = outcome,
                              !.processed =
                                 @ + NextComplete(r.articles, r.idx + 1) - r.idx]]
               /\ log' = Record(r, log \o <<Entry(a.title, outcome, n, n)>>
                                        \o MissingEntries(r.articles, r.idx + 1, store))
       IN \E f \in {"ok"} \cup (faults \cap {"lookup_error"}) :
             IF f = "lookup_error" THEN skip("lookup_error")
             ELSE IF DedupHit(store, a.title) THEN skip("duplicate")
             ELSE /\ task' = [task EXCEPT ![t].pc = "create"]
                  /\ hist' = [hist EXCEPT ![t] = [@ EXCEPT !.lookups = @ + 1,
                                                           !.last = "miss"]]
                  /\ UNCHANGED log
    /\ UNCHANGED <<store, is_running>>
    /\ UNCHANGED aux

\* database.py:66-74: the embedding is computed first; the insert is reached
\* only when generate_embeddings did not raise.
InsertCalled(f) == f # "embedding_error"

\* database.py:74-77: the insert adds the record it returns.
WrittenDespiteEmbeddingError(f) == f \in {"ok", "embedding_error"}
Written(f) == f = "ok"

\* crawler.py:178-183: if saved_article: saved_count += 1
CountedWhateverTheInsertReturns(f) == TRUE
Counted(f) == f = "ok"

\* crawler.py:168-187 with database.py:64-80: db.create_article returns.
\* The embedding is computed first (a failure raises, nothing is written);
\* the insert returning a record counts the article as saved.
CreateReturns(t, faults) ==
    /\ task[t].pc = "create"
    /\ LET r == task[t]
           a == r.articles[r.idx]
           n == CountTitle(store, a.title)
       IN \E f \in CreateOutcomes(store, faults) :
             /\ store' = IF Written(f) THEN InsertRecord(store, a.title, a.category) ELSE store
             /\ task' = [task EXCEPT ![t] =
                            LET c == [r EXCEPT !.saved_count =
                                         IF Counted(f) THEN @ + 1 ELSE @]
                            IN IF f = "ok" THEN NextItem(c, r.idx + 1)
                               ELSE OnItemError(c)]
             /\ hist' = [hist EXCEPT ![t] = [@ EXCEPT
                            !.embeds = @ + 1,
                            !.last = f,
                            !.inserts = IF InsertCalled(f) THEN @ + 1 ELSE @,
                            !.processed =
                               @ + NextComplete(r.articles, r.idx + 1) - r.idx]]
             /\ log' = Record(r,
                          log \o <<Entry(a.title, IF f = "ok" THEN "saved" ELSE f,
                                         n, CountTitle(store', a.title))>>
                              \o MissingEntries(r.articles, r.idx + 1, store'))
    /\ UNCHANGED is_running
    /\ UNCHANGED aux

\* routes.py:10-23 with database.py:64-80: POST /articles/ writes straight
\* through db.create_article; there is no title lookup on this path.
create_article(title, category, faults) ==
    /\ \A t \in Tasks : task[t].pc \in {"idle", "returned"}
    /\ \E f \in CreateOutcomes(store, faults) :
          store' = IF Written(f) THEN InsertRecord(store, title, category) ELSE store
    /\ log' = <<>>
    /\ UNCHANGED <<is_running, task, hist>>
    /\ UNCHANGED aux

\* ------------------------------------------------------------ periodic loop
\* Positions inside a crawling cycle, the ones at which the coroutine is
\* really suspended (research awaits and sleeps), and the ones after the loop.
CyclePositions == {"conduct", "write", "lookup", "create", "pacing"}
Sleeps == {"pacing", "interval", "backoff"}
SuspensionPoints == {"conduct", "write"} \cup Sleeps
LoopPositions == CyclePositions \cup Sleeps
Terminated == {"exited", "raised"}

\* crawler.py:250-255, 191-196 / 211-220, 96-110: the try body starts a cycle,
\* which runs to the first await of the research provider.
BeginCycle(r) ==
    [r EXCEPT !.pc = "conduct",
              !.sector = IF r.caller \in AllSectorCallers THEN 1 ELSE @,
              !.articles = <<>>, !.idx = 0,
              !.saved_count = 0, !.total_saved = 0]

\* crawler.py:250: while self.is_running
LoopConditionIgnoresFlag(running) == TRUE
LoopCondition(running) == running

LoopCheck(r, running) ==
    IF LoopCondition(running) THEN BeginCycle(r) ELSE [r EXCEPT !.pc = "exited"]

\* crawler.py:217: for sector in self.sector_keys -- is there a next sector?
\* The flag is_running is not consulted inside a cycle.
MoreSectorsWhileRunning(r, running) == r.sector < NSectors /\ running
MoreSectors(r, running) == r.sector < NSectors

\* crawler.py:262-264: except Exception -> log, sleep 60, loop again.
OnLoopErrorBreak(r) == [r EXCEPT !.pc = "exited"]
OnLoopError(r) == Sleep(r, "backoff", BACKOFF_DELAY)

\* crawler.py:121-123, 208-209, 232-234, 238-239: do the except Exception
\* handlers of the cycle catch asyncio.CancelledError raised at position pos?
\* CancelledError derives from BaseException, so none of them does.
IsolationCatchesCancelInResearch(pos) == pos \in {"conduct", "write"}
IsolationCatchesCancel(pos) == FALSE

\* crawler.py:241-255: start_periodic_crawling sets the flag and enters the
\* loop, whose first cycle starts at once.
start_periodic_crawling(t, all_sectors, sector) ==
    /\ task[t].pc \in {"idle"} \cup Terminated
    /\ is_running' = TRUE
    /\ task' = [task EXCEPT ![t] =
                   BeginCycle([IdleTask EXCEPT
                       !.caller = IF all_sectors THEN "all" ELSE "single",
                       !.sector = sector])]
    /\ hist' = [hist EXCEPT ![t] = CycleHist(IdleHist, store)]
    /\ UNCHANGED <<store, log>>
    /\ UNCHANGED aux

\* crawler.py:110: await researcher.conduct_research() returns or raises; an
\* exception makes crawl_for_articles return [] (crawler.py:121-123).
ConductReturns(t, faults) ==
    /\ task[t].pc = "conduct"
    /\ ~task[t].cancelling
    /\ \E f \in {"ok"} \cup (faults \cap {"research_error"}) :
          /\ task' = [task EXCEPT ![t] =
                      IF f = "ok" THEN [@ EXCEPT !.pc = "write"]
                      ELSE OnResearchError(@)]
          /\ hist' = [hist EXCEPT ![t].errors = IF f = "ok" THEN @ ELSE @ + 1]
    /\ UNCHANGED <<store, is_running, log>>
    /\ UNCHANGED aux

\* Reports whose first line is a heading with one of the Titles.
TitledReports == {<<"#", "a">>, <<"#", "b">>}

\* crawler.py:113-116: crawl_for_articles returns [article], a list of the one
\* article built from the report; the builder has set all required fields.
CrawlResultTwice(article) ==
    <<[title |-> article.title, category |-> article.category, complete |-> TRUE],
      [title |-> article.title, category |-> article.category, complete |-> TRUE]>>
CrawlResult(article) ==
    <<[title |-> article.title, category |-> article.category, complete |-> TRUE]>>

\* crawler.py:113-123, 198-204 / 222-223, 152-163: await write_report() returns
\* the report, which _convert_report_to_article turns into one article that
\* goes to process_and_save_articles (no article when it returns None); or
\* write_report raises and the sector has no article.
WriteReturns(t, faults, reports) ==
    /\ task[t].pc = "write"
    /\ ~task[t].cancelling
    /\ \/ /\ "research_error" \in faults
          /\ task' = [task EXCEPT ![t] = OnResearchError(@)]
          /\ hist' = [hist EXCEPT ![t].errors = @ + 1]
       \/ \E report \in reports :
          LET article == convert_report_to_article(report, task[t].sector) IN
          IF article = NoArticle
          THEN /\ task' = [task EXCEPT ![t] = AfterSector(@)]
               /\ UNCHANGED hist
          ELSE /\ task' = [task EXCEPT ![t] =
                      NextItem([@ EXCEPT !.articles = CrawlResult(article),
                                         !.saved_count = 0], 1)]
               /\ hist' = [hist EXCEPT ![t] = [@ EXCEPT !.found = @ + 1,
                                                        !.complete = @ + 1]]
    /\ UNCHANGED <<store, is_running, log>>
    /\ UNCHANGED aux

\* Time passes for a sleeping task: half of the delay, or all of it.
TimePasses(t) ==
    /\ task[t].pc \in Sleeps
    /\ ~task[t].cancelling
    /\ task[t].timer_el < task[t].timer_dur
    /\ \E e \in {task[t].timer_dur \div 2, task[t].timer_dur} :
          /\ e > task[t].timer_el
          /\ task' = [task EXCEPT ![t].timer_el = e]
    /\ UNCHANGED <<store, is_running, hist, log>>
    /\ UNCHANGED aux

\* crawler.py:230, 217-220, 236, 257: asyncio.sleep(30) returns once the delay
\* has passed; the next sector starts, or the cycle is complete and the
\* inter-cycle sleep begins.
PacingDone(t) ==
    /\ task[t].pc = "pacing"
    /\ ~task[t].cancelling
    /\ task[t].timer_el = task[t].timer_dur
    /\ task' = [task EXCEPT ![t] =
                   IF MoreSectors(@, is_running)
                   THEN [@ EXCEPT !.pc = "conduct", !.sector = @ + 1]
                   ELSE CycleComplete(@)]
    /\ hist' = [hist EXCEPT ![t] = [@ EXCEPT
                   !.stop_in_sleep = FALSE,
                   !.researched = IF MoreSectors(task[t], is_running)
                                  THEN @ + 1 ELSE @]]
    /\ UNCHANGED <<store, is_running, log>>
    /\ UNCHANGED aux

\* crawler.py:257, 250: asyncio.sleep(crawl_interval) returns once the interval
\* has passed; the loop condition is checked.
IntervalDone(t) ==
    /\ task[t].pc = "interval"
    /\ ~task[t].cancelling
    /\ task[t].timer_el = task[t].timer_dur
    /\ task' = [task EXCEPT ![t] = LoopCheck(@, is_running)]
    /\ hist' = [hist EXCEPT ![t] =
                   IF LoopCondition(is_running)
                   THEN CycleHist([@ EXCEPT !.stop_in_sleep = FALSE], store)
                   ELSE [@ EXCEPT !.stop_in_sleep = FALSE]]
    /\ UNCHANGED <<store, is_running, log>>
    /\ UNCHANGED aux

\* crawler.py:257, 262-264: the inter-cycle sleep call raises an Exception (a
\* crawl_interval that asyncio.sleep rejects); the handler backs off.
SleepRaises(t) ==
    /\ task[t].pc = "interval"
    /\ ~task[t].cancelling
    /\ task[t].timer_el = 0
    /\ task' = [task EXCEPT ![t] = OnLoopError(@)]
    /\ hist' = [hist EXCEPT ![t].stop_in_sleep = FALSE]
    /\ UNCHANGED <<store, is_running, log>>
    /\ UNCHANGED aux

\* crawler.py:264, 250: the backoff sleep returns; the loop condition is
\* checked.
BackoffDone(t) ==
    /\ task[t].pc = "backoff"
    /\ ~task[t].cancelling
    /\ task[t].timer_el = task[t].timer_dur
    /\ task' = [task EXCEPT ![t] = LoopCheck(@, is_running)]
    /\ hist' = [hist EXCEPT ![t] =
                   IF LoopCondition(is_running)
                   THEN CycleHist([@ EXCEPT !.stop_in_sleep = FALSE], store)
                   ELSE [@ EXCEPT !.stop_in_sleep = FALSE]]
    /\ UNCHANGED <<store, is_running, log>>
    /\ UNCHANGED aux

\* crawler.py:266-269: stop_crawling only clears the flag; it can be called
\* at any time, also from the signal handler while a store request blocks.
stop_crawling ==
    /\ is_running' = FALSE
    /\ hist' = [t \in Tasks |->
          IF task[t].pc \notin LoopPositions \/ task[t].caller \notin LoopCallers
          THEN hist[t]
          ELSE [hist[t] EXCEPT
                  !.first_stop = IF @ = NoStop
                                 THEN [pc |-> task[t].pc, sector |-> task[t].sector]
                                 ELSE @,
                  !.stop_in_interval = @ \/ task[t].pc = "interval",
                  !.stop_in_sleep = @ \/ (/\ task[t].pc \in Sleeps
                                          /\ task[t].timer_el < task[t].timer_dur)]]
    /\ UNCHANGED <<store, task, log>>
    /\ UNCHANGED aux

\* Task.cancel() on the loop's task: the request is recorded; CancelledError
\* is raised in the coroutine where it is, or next gets, suspended.
cancel(t) ==
    /\ task[t].pc \in LoopPositions
    /\ ~task[t].cancelling
    /\ task' = [task EXCEPT ![t].cancelling = TRUE]
    /\ hist' = [hist EXCEPT ![t].cancelled = TRUE]
    /\ UNCHANGED <<store, is_running, log>>
    /\ UNCHANGED aux

\* crawler.py:259-261: CancelledError raised at an await inside the try body
\* reaches the handler of the loop, which breaks; raised in the backoff sleep
\* (crawler.py:264, outside the try) it leaves start_periodic_crawling.
CancelledError(t) ==
    /\ task[t].cancelling
    /\ task[t].pc \in SuspensionPoints
    /\ task' = [task EXCEPT ![t] =
                   IF IsolationCatchesCancel(@.pc)
                   THEN AfterSector([@ EXCEPT !.cancelling = FALSE])
                   ELSE [@ EXCEPT !.cancelling = FALSE,
                                  !.pc = IF @ = "backoff" THEN "raised" ELSE "exited"]]
    /\ UNCHANGED <<store, is_running, hist, log>>
    /\ UNCHANGED aux

\* ---------------------------------------------------------- one-shot cycles
\* crawler.py:191-209, 211-239: the cycle functions never assign
\* self.is_running; the flag after entering one is the flag before.
FlagSetOnCycleEntry(running) == TRUE
FlagOnCycleEntry(running) == running

\* crawler.py:317-321, 191-198, test_crawler.py:12-19: run_crawling_cycle(sector)
\* called directly; it runs to the first await of the research provider.
run_crawling_cycle(t, sector) ==
    /\ task[t].pc \in {"idle", "returned"} \cup Terminated
    /\ is_running' = FlagOnCycleEntry(is_running)
    /\ task' = [task EXCEPT ![t] =
                   BeginCycle([IdleTask EXCEPT !.caller = "test_single",
                                               !.sector = sector])]
    /\ hist' = [hist EXCEPT ![t] = CycleHist(IdleHist, store)]
    /\ UNCHANGED <<store, log>>
    /\ UNCHANGED aux

\* crawler.py:322-324, 211-222, test_crawler.py:21-27:
\* run_crawling_cycle_all_sectors() called directly.
run_crawling_cycle_all_sectors(t) ==
    /\ task[t].pc \in {"idle", "returned"} \cup Terminated
    /\ is_running' = FlagOnCycleEntry(is_running)
    /\ task' = [task EXCEPT ![t] =
                   BeginCycle([IdleTask EXCEPT !.caller = "test_all"])]
    /\ hist' = [hist EXCEPT ![t] = CycleHist(IdleHist, store)]
    /\ UNCHANGED <<store, log>>
    /\ UNCHANGED aux

\* What write_report may hand back in a one-shot cycle: a titled report, an
\* empty text, or no string at all.
TestReports == {<<"#", "a">>, <<>>, NoReport}

\* The steps a one-shot cycle takes by itself.
CycleStep(t, faults) ==
    \/ ConductReturns(t, faults)
    \/ WriteReturns(t, faults, TestReports)
    \/ LookupReturns(t, faults)
    \/ CreateReturns(t, faults)
    \/ TimePasses(t)
    \/ PacingDone(t)

\* ------------------------------------------------------------ builder calls
\* crawler.py:125-150: one call of _convert_report_to_article.
convert(report, k) ==
    /\ built' = [report |-> report, sector |-> k,
                 article |-> convert_report_to_article(report, k),
                 done |-> TRUE]
    /\ UNCHANGED <<store, is_running, task, hist, log, crawler, prompt, reply>>

\* crawler.py:69-85: one call of format_prompt.
build_prompt(sector, topics, date) ==
    /\ prompt' = [sector |-> sector, topics |-> topics, date |-> date,
                  text |-> format_prompt(sector, topics, date), done |-> TRUE]
    /\ UNCHANGED <<store, is_running, task, hist, log, crawler, built, reply>>

\* ----------------------------------------------------------- facade requests
\* The arguments the requests are drawn from.
TitleArgs == {<<"a">>, <<"B">>, <<"a", "b">>, <<"_">>, <<"c">>}
Categories == {SectorName(k) : k \in 1..NSectors}
CategoryArgs == Categories \cup {LowerText(SectorName(1)), <<>>}
Queries == {<<"a">>, <<"b">>}
Limits == 0..MaxStore
Ids == 0..(MaxStore + 1)

\* One request answered: the arguments, what the facade method handed back
\* and the status code of the route.
Answer(call, fault, out) ==
    /\ reply' = [call EXCEPT !.fault = fault,
                             !.status = out.status,
                             !.http = Http(out.status),
                             !.rows = out.rows,
                             !.embeddings = out.embeddings,
                             !.queries = out.queries,
                             !.done = TRUE]
    /\ UNCHANGED <<store, is_running, task, hist, log, crawler, built, prompt>>

\* routes.py:34-46 with database.py:82-89: GET /articles/{article_id}
get_article(article_id, faults) ==
    \E f \in {"ok"} \cup (faults \cap StoreFaults) :
        Answer([NoReply EXCEPT !.op = "get_article", !.id = article_id],
               f, Facade("first", f, SelectById(store, article_id)))

\* routes.py:48-60 with database.py:91-104: GET /articles/title/{title}
article_by_title(title, exact_match, faults) ==
    \E f \in {"ok"} \cup (faults \cap StoreFaults) :
        Answer([NoReply EXCEPT !.op = "get_article_by_title", !.text = title,
                               !.exact_match = exact_match],
               f, Facade("first", f, SelectByTitle(store, title, exact_match)))

\* routes.py:62-69 with database.py:106-114: GET /articles/search-title/{title}
search_articles_by_title(title, limit, faults) ==
    \E f \in {"ok"} \cup (faults \cap StoreFaults) :
        Answer([NoReply EXCEPT !.op = "search_articles_by_title", !.text = title,
                               !.limit = limit],
               f, Facade("list", f, SelectTitleLike(store, title, limit)))

\* routes.py:25-32 with database.py:116-124: GET /articles/
get_all_articles(limit, faults) ==
    \E f \in {"ok"} \cup (faults \cap StoreFaults) :
        Answer([NoReply EXCEPT !.op = "get_all_articles", !.limit = limit],
               f, Facade("list", f, SelectAll(store, limit)))

\* routes.py:71-78 with database.py:126-147: POST /articles/search
search_articles_semantic(query, limit, faults) ==
    \E f \in {"ok"} \cup (faults \cap SearchFaults) :
        Answer([NoReply EXCEPT !.op = "search_articles_semantic", !.text = query,
                               !.limit = limit],
               f, Facade("rpc", f, match_articles(store, query, MATCH_THRESHOLD,
                                                  MatchCount(limit))))

\* routes.py:89-96 with database.py:149-157: GET /articles/category/{category}
search_articles_by_category(category, limit, faults) ==
    \E f \in {"ok"} \cup (faults \cap StoreFaults) :
        Answer([NoReply EXCEPT !.op = "search_articles_by_category",
                               !.category = category, !.limit = limit],
               f, Facade("list", f, SelectByCategory(store, category, limit)))

\* routes.py:98-105 with database.py:159-163: GET /categories/
\* Only the category column is selected: no embeddings are converted.
get_categories(faults) ==
    \E f \in {"ok"} \cup (faults \cap {"unreachable", "no_data"}) :
        LET out == Facade("list", f, <<>>) IN
        Answer([NoReply EXCEPT !.op = "get_categories",
                               !.categories = IF out.status = "ok"
                                              THEN SelectCategories(store) ELSE {}],
               f, out)

\* routes.py:80-87 with database.py:165-191: POST /articles/hybrid-search
hybrid_search(query, category, limit, faults) ==
    \E f \in {"ok"} \cup (faults \cap SearchFaults) :
        Answer([NoReply EXCEPT !.op = "hybrid_search", !.text = query,
                               !.category = category, !.limit = limit],
               f, Facade("rpc", f,
                         hybrid_search_articles(store, query, MATCH_THRESHOLD,
                                                MatchCount(limit),
                                                CategoryFilter(category))))

\* The answer has gone out: the request is over.
sent ==
    /\ reply.done
    /\ reply' = NoReply
    /\ UNCHANGED <<store, is_running, task, hist, log, crawler, built, prompt>>

\* One request of each kind, for everything the store holds.
EachRead(faults) ==
    \/ get_article(1, faults)
    \/ article_by_title(<<"a">>, FALSE, faults)
    \/ search_articles_by_title(<<"a">>, MaxStore, faults)
    \/ get_all_articles(MaxStore, faults)
    \/ search_articles_semantic(<<"a">>, MaxStore, faults)
    \/ search_articles_by_category(SectorName(1), MaxStore, faults)
    \/ get_categories(faults)
    \/ hybrid_search(<<"a">>, Omitted, MaxStore, faults)

\* Any request to the search facade.
Search(faults) ==
    \/ \E article_id \in Ids : get_article(article_id, faults)
    \/ \E title \in TitleArgs, exact_match \in BOOLEAN :
          article_by_title(title, exact_match, faults)
    \/ \E title \in TitleArgs, limit \in Limits :
          search_articles_by_title(title, limit, faults)
    \/ \E limit \in Limits : get_all_articles(limit, faults)
    \/ \E query \in Queries, limit \in Limits :
          search_articles_semantic(query, limit, faults)
    \/ \E category \in CategoryArgs, limit \in Limits :
          search_articles_by_category(category, limit, faults)
    \/ get_categories(faults)
    \/ \E query \in Queries, category \in CategoryArgs \cup {Omitted},
          limit \in Limits : hybrid_search(query, category, limit, faults)

\* The steps a loop task takes by itself.
LoopStep(t, faults) ==
    \/ ConductReturns(t, faults)
    \/ WriteReturns(t, faults, TitledReports)
    \/ LookupReturns(t, faults)
    \/ CreateReturns(t, faults)
    \/ TimePasses(t)
    \/ PacingDone(t)
    \/ IntervalDone(t)
    \/ SleepRaises(t)
    \/ BackoffDone(t)
    \/ CancelledError(t)

\* ----------------------------------------------------------- specifications
\* One caller at a time: direct ingestion calls and POST /articles/ requests.
IngestNext ==
    \/ \E b \in Batches : process_and_save_articles(1, b)
    \/ LookupReturns(1, AllFaults)
    \/ CreateReturns(1, AllFaults)
    \/ \E title \in Titles : create_article(title, SectorName(1), AllFaults)

IngestSpec == Init /\ [][IngestNext]_vars

\* Two ingestion pipelines running at once against the same store.
RaceNext ==
    \E t \in Tasks :
        \/ \E title \in Titles :
              process_and_save_articles(t, <<[title |-> title, category |-> SectorName(1),
                                               complete |-> TRUE]>>)
        \/ LookupReturns(t, NoFaults)
        \/ CreateReturns(t, NoFaults)

RaceSpec == Init /\ [][RaceNext]_vars

\* The crawler as main() runs it: one periodic loop, stop_crawling() and
\* cancellation arriving at any time.
Next ==
    \/ \E all_sectors \in BOOLEAN, sector \in 1..NSectors :
          start_periodic_crawling(1, all_sectors, sector)
    \/ LoopStep(1, AllFaults)
    \/ stop_crawling
    \/ cancel(1)

Spec == Init /\ [][Next]_vars

\* The event loop keeps running the task, and time keeps passing.
FairSpec == Spec /\ WF_vars(LoopStep(1, AllFaults))

\* One-shot cycles (main() with --test, test_crawler.py), also after a loop on
\* the same crawler was cancelled; stop_crawling() arriving at any time.
TestNext ==
    \/ \E sector \in 1..NSectors : run_crawling_cycle(1, sector)
    \/ run_crawling_cycle_all_sectors(1)
    \/ CycleStep(1, AllFaults)
    \/ \E all_sectors \in BOOLEAN : start_periodic_crawling(1, all_sectors, 1)
    \/ cancel(1)
    \/ CancelledError(1)
    \/ stop_crawling

TestSpec == Init /\ [][TestNext]_vars

\* The event loop keeps running the cycle, and time keeps passing.
TestFairSpec == TestSpec /\ WF_vars(CycleStep(1, AllFaults))

\* The article builder applied to every report text and every sector.
BuilderNext ==
    \E report \in ReportTexts \cup LongReports \cup {NoReport}, k \in 1..NSectors :
        convert(report, k)

BuilderSpec == Init /\ [][BuilderNext]_vars

\* format_prompt applied to every sector key, with and without topics and date.
PromptNext ==
    \E sector \in SectorArgs, topics \in TopicTexts \cup {Omitted},
       date \in DateTexts \cup {Omitted} : build_prompt(sector, topics, date)

PromptSpec == Init /\ [][PromptNext]_vars

\* The search facade over a store that POST /articles/ fills.
SearchTitles == Titles \cup {<<"a", "b">>}
SearchNext ==
    \/ /\ ~reply.done
       /\ \/ \E title \in SearchTitles, category \in Categories :
                create_article(title, category, NoFaults)
          \/ Search(SearchFaults)
    \/ sent

SearchSpec == Init /\ [][SearchNext]_vars

\* Everything that reaches the store: crawling cycles over all sectors,
\* POST /articles/ and the requests to the search facade, one at a time.
StoreNext ==
    \/ /\ ~reply.done
       /\ \/ run_crawling_cycle_all_sectors(1)
          \/ CycleStep(1, NoFaults)
          \/ \E title \in Titles, category \in Categories :
                create_article(title, category, NoFaults)
          \/ EachRead(NoFaults)
    \/ sent

StoreSpec == Init /\ [][StoreNext]_vars

\* Two start_periodic_crawling() calls on the same crawler instance.
MultiNext ==
    \/ \E t \in Tasks :
          \/ start_periodic_crawling(t, FALSE, 1)
          \/ ConductReturns(t, NoFaults)
          \/ WriteReturns(t, NoFaults, TitledReports)
          \/ LookupReturns(t, NoFaults)
          \/ CreateReturns(t, NoFaults)
          \/ TimePasses(t)
          \/ IntervalDone(t)
    \/ stop_crawling

MultiSpec == Init /\ [][MultiNext]_vars

\* ------------------------------------------------------------------ claims
NoTwoRecordsShareATitle(s) ==
    \A i, j \in 1..Len(s) : i # j => s[i].title # s[j].title

\* The two most recent ingests were of the same title, one right after the
\* other with no other write in between, and embedding and store worked.
TwinIngest ==
    /\ Len(log) = 2
    /\ log[1].title = log[2].title
    /\ log[1].outcome \in {"saved", "duplicate"}
    /\ log[2].outcome \in {"saved", "duplicate"}

\* C1 as stated: for ANY store state, ingesting an article with all required
\* fields twice in sequence leaves exactly one record with that title, the
\* first ingest being saved and the second skipped as a duplicate.
C1_AsStated ==
    TwinIngest =>
        /\ log[1].outcome = "saved"
        /\ log[2].outcome = "duplicate"
        /\ log[2].after = 1

\* C1 amended: the second of two sequential ingests of a title is always
\* skipped as a duplicate, without an insert and leaving the store as it was;
\* the first is saved exactly when the store held no record with that title,
\* and then exactly one such record is stored; otherwise the first is skipped
\* too and the number of records with that title stays what it was.
C1_SequentialIdempotence ==
    TwinIngest =>
        /\ log[2].outcome = "duplicate"
        /\ log[2].before = log[1].after
        /\ log[2].after = log[2].before
        /\ log[1].before = 0 =>
              (log[1].outcome = "saved" /\ log[2].after = 1)
        /\ log[1].before > 0 =>
              (log[1].outcome = "duplicate" /\ log[2].after = log[1].before)

C1_Witness ==
    /\ TwinIngest
    /\ log[1].outcome = "saved"
    /\ log[2].outcome = "duplicate"
    /\ CountTitle(store, log[2].title) = 1
    /\ task[1].pc = "returned"

\* C2: with two ingestion pipelines running process_and_save_articles at the
\* same time, no reachable state has two stored records with the same title.
C2_AtMostOnePerTitleConcurrent == NoTwoRecordsShareATitle(store)

\* C3: after any non-concurrent sequence of crawler ingest calls and
\* POST /articles/ create calls, no two stored records have equal titles.
C3_TitleUnique ==
    (\A t \in Tasks : task[t].pc \in {"idle", "returned"})
        => NoTwoRecordsShareATitle(store)

\* C4: a stop_crawling() call during the inter-cycle wait makes the loop exit
\* before the next cycle: once the wait (or the backoff an error turned it
\* into) is over the loop leaves, and no cycle of that loop begins after the
\* stop.
C4_StopDuringWaitExits ==
    [][\A t \in Tasks :
        (hist[t].stop_in_interval /\ ~hist[t].cancelled
            /\ task[t].pc \in {"interval", "backoff"}) =>
            /\ task'[t].pc \notin CyclePositions
            /\ task'[t].pc # task[t].pc => task'[t].pc \in {"backoff", "exited"}
            /\ (task[t].pc = "backoff" /\ task'[t].pc # "backoff")
                   => task'[t].pc = "exited"]_vars

C4_Witness ==
    /\ hist[1].stop_in_interval
    /\ ~hist[1].cancelled
    /\ hist[1].first_stop.pc = "interval"
    /\ task[1].pc = "exited"
    /\ task[1].timer_dur = CRAWL_INTERVAL
    /\ task[1].timer_el = CRAWL_INTERVAL

\* C5: under any interleaving of start_periodic_crawling() and stop_crawling()
\* calls on one crawler, at most one crawling cycle is in progress at a time.
C5_NoOverlappingCycles ==
    Cardinality({t \in Tasks : task[t].pc \in CyclePositions}) <= 1

\* C6: a cancellation of the loop's task is not swallowed by the cycle's error
\* isolation: at a research await or in a sleep the next thing the task does
\* is leave the loop, which it can do at once whatever is left of the delay;
\* requested during a store call it lets no further sector or cycle start.
C6_CancellationPrompt ==
    /\ [][\A t \in Tasks : task[t].cancelling =>
            /\ (task[t].pc \in SuspensionPoints /\ task'[t] # task[t])
                   => task'[t].pc \in Terminated
            /\ task'[t].pc = "conduct" => task[t].pc = "conduct"]_vars
    /\ [](\A t \in Tasks :
            (task[t].cancelling /\ task[t].pc \in SuspensionPoints)
                => ENABLED CancelledError(t))

C6_Witness ==
    /\ hist[1].cancelled
    /\ ~task[1].cancelling
    /\ task[1].pc = "exited"
    /\ is_running
    /\ task[1].caller = "all"
    /\ task[1].sector = 1
    /\ task[1].timer_dur = PACING_DELAY
    /\ task[1].timer_el < PACING_DELAY

\* C7: when stop_crawling() is called during the inter-cycle wait or the
\* inter-sector pacing delay, that wait ends before its full duration has
\* elapsed.
C7_StopPreemptsWait ==
    [][\A t \in Tasks :
        (task[t].pc \in {"pacing", "interval"} /\ hist[t].stop_in_sleep
            /\ ~task[t].cancelling /\ task'[t].pc # task[t].pc)
        => task[t].timer_el < task[t].timer_dur]_vars

\* C8: the periodic loop exits only if stop_crawling() was called or a
\* cancellation was received; an exception in the loop body leads to a backoff
\* of 60 time-units and then, the flag still set, to another cycle; from every
\* wait a further cycle eventually starts unless the flag is cleared or a
\* cancellation arrives.
C8_NeverTerminatesItself ==
    /\ [](\A t \in Tasks : task[t].pc \in Terminated =>
            (hist[t].first_stop # NoStop \/ hist[t].cancelled))
    /\ [][\A t \in Tasks :
            /\ (task[t].pc = "interval" /\ task'[t].pc = "backoff")
                   => (task'[t].timer_dur = BACKOFF_DELAY /\ task'[t].timer_el = 0)
            /\ (task[t].pc = "backoff" /\ task'[t].pc # "backoff"
                    /\ is_running /\ ~task[t].cancelling)
                   => (task'[t].pc = "conduct"
                       /\ task[t].timer_el = BACKOFF_DELAY)]_vars
    /\ \A t \in Tasks :
          (task[t].pc \in {"interval", "backoff"}) ~>
              (\/ task[t].pc = "conduct"
               \/ ~is_running
               \/ hist[t].cancelled)

C8_Witness ==
    /\ task[1].pc = "conduct"
    /\ task[1].timer_dur = BACKOFF_DELAY
    /\ task[1].timer_el = BACKOFF_DELAY
    /\ is_running
    /\ hist[1].first_stop = NoStop
    /\ ~hist[1].cancelled

\* C9: is_running is false before the loop is started, true while a started
\* loop has not been stopped, and false whenever the loop has exited, by an
\* explicit stop or by a cancellation.
C9_StateReflectsLoop ==
    /\ task[1].pc = "idle" => ~is_running
    /\ (task[1].pc \in LoopPositions /\ hist[1].first_stop = NoStop) => is_running
    /\ task[1].pc \in Terminated => ~is_running

\* C10: stop_crawling() does not abort a cycle in progress: the call changes
\* nothing but the flag, and a cycle during which it was called is left only
\* when complete -- after the last sector of an all-sectors cycle, with every
\* article found handed to the store -- and does get there unless cancelled.
C10_StopDoesNotAbortCycle ==
    /\ [][/\ (is_running /\ ~is_running') => UNCHANGED <<task, store>>
          /\ \A t \in Tasks :
               (hist[t].first_stop.pc \in CyclePositions /\ ~hist'[t].cancelled
                   /\ task[t].pc \in CyclePositions
                   /\ task'[t].pc \notin CyclePositions)
               => /\ task'[t].pc = "interval"
                  /\ task[t].caller = "all" => task[t].sector = NSectors
                  /\ hist'[t].found = hist'[t].processed]_vars
    /\ \A t \in Tasks :
          (hist[t].first_stop.pc \in CyclePositions /\ task[t].pc \in CyclePositions)
              ~> (task[t].pc = "interval" \/ hist[t].cancelled)

C10_Witness ==
    /\ hist[1].first_stop = [pc |-> "conduct", sector |-> 1]
    /\ ~hist[1].cancelled
    /\ task[1].caller = "all"
    /\ task[1].pc = "interval"
    /\ task[1].sector = NSectors
    /\ task[1].total_saved = 2
    /\ hist[1].found = 2

\* C11: a one-shot test cycle (run_crawling_cycle or
\* run_crawling_cycle_all_sectors called directly) runs exactly one cycle and
\* returns without entering the loop: no step of it changes is_running,
\* crawl_interval or current_sector_index, it never stands in the inter-cycle
\* or the backoff sleep, when it returns it has made one research call per
\* sector of the cycle, and unless it is cancelled it does return -- whatever
\* the research and store calls do.
C11_TestCycleFrame ==
    /\ [][\A t \in Tasks :
            (task'[t] # task[t] /\ task'[t].caller \in TestCallers) =>
               /\ is_running' = is_running
               /\ crawler' = crawler
               /\ task'[t].pc \notin {"interval", "backoff"}
               /\ task'[t].pc = "returned" =>
                     hist'[t].researched =
                        IF task'[t].caller = "test_all" THEN NSectors ELSE 1]_vars
    /\ \A t \in {1} :
          (task[t].caller \in TestCallers /\ task[t].pc \in CyclePositions)
             ~> (task[t].pc = "returned" \/ hist[t].cancelled)

\* A one-shot all-sectors cycle has returned after a research failure in one
\* sector and an insert in the other, on a crawler whose flag is set.
C11_Witness ==
    /\ task[1].caller = "test_all"
    /\ task[1].pc = "returned"
    /\ is_running
    /\ hist[1].errors = 1
    /\ hist[1].inserts = 1

\* C12: per-sector isolation in the all-sectors cycle: whatever sectors have
\* their research call raise or their ingestion fail, the cycle goes on to
\* every sector of the list in order (the research calls made so far are one
\* per sector up to the current one), every article found gets its store
\* lookup, and the cycle ends by returning, after all sectors, never by an
\* error leaving it.
C12_SectorIsolation ==
    \A t \in Tasks :
       task[t].caller \in AllSectorCallers =>
          /\ task[t].pc \in CyclePositions => hist[t].researched = task[t].sector
          /\ task[t].pc \in {"conduct", "write", "pacing"} =>
                /\ hist[t].lookups = hist[t].found
                /\ hist[t].processed = hist[t].found
          /\ task[t].pc \in Terminated => hist[t].cancelled \/ task[t].caller = "all"
          /\ task[t].pc \in {"returned", "interval"} =>
                /\ hist[t].researched = NSectors
                /\ task[t].sector = NSectors
                /\ hist[t].lookups = hist[t].found
                /\ hist[t].processed = hist[t].found

\* A one-shot all-sectors cycle has returned: the research of one sector
\* raised, the article of the other one was saved.
C12_Witness ==
    /\ task[1].caller = "test_all"
    /\ task[1].pc = "returned"
    /\ hist[1].errors = 1
    /\ hist[1].found = 1
    /\ task[1].total_saved = 1

\* C13: cycle results are returned to the caller: when a one-shot cycle has
\* returned, the value handed back is not None; for the single-sector cycle it
\* carries the sector's saved count, for the all-sectors cycle the sum of the
\* saved counts across sectors, which is the number of records the cycle
\* inserted.
C13_CycleResultsReturned ==
    \A t \in Tasks :
       (task[t].caller \in TestCallers /\ task[t].pc = "returned") =>
          /\ task[t].retval.kind # "None"
          /\ task[t].caller = "test_single" =>
                task[t].retval.value = task[t].saved_count
          /\ task[t].caller = "test_all" =>
                /\ task[t].retval.value = task[t].total_saved
                /\ task[t].total_saved = Len(store) - hist[t].len0

\* C14: a research-provider failure yields a zero-result cycle: the step on
\* which the research call of a single-sector cycle raises ends the cycle by
\* returning (by going to the inter-cycle sleep, inside the loop), with no
\* article found, no store lookup, no embedding call and no insert made in
\* that cycle, and the store as it was when the cycle began.
C14_ResearchFailureIsZeroResult ==
    [][\A t \in Tasks :
          (/\ task[t].caller \in {"single", "test_single"}
           /\ hist'[t].errors > hist[t].errors) =>
             /\ task'[t].pc = IF task[t].caller = "single" THEN "interval"
                                                           ELSE "returned"
             /\ task'[t].articles = <<>>
             /\ hist'[t].found = 0
             /\ hist'[t].lookups = 0
             /\ hist'[t].embeds = 0
             /\ hist'[t].inserts = 0
             /\ store' = store
             /\ Len(store') = hist'[t].len0]_vars

\* A one-shot single-sector cycle has returned after its research call
\* raised, leaving a store that earlier cycles had filled as it was.
C14_Witness ==
    /\ task[1].caller = "test_single"
    /\ task[1].pc = "returned"
    /\ hist[1].errors = 1
    /\ hist[1].lookups = 0
    /\ store # <<>>
    /\ Len(store) = hist[1].len0

\* C15: per-item isolation in batch ingestion: whatever the outcomes of the
\* articles (missing fields, duplicate, embedding error, lookup error, insert
\* returning no record), the call handles the articles one by one in batch
\* order -- while it stands at article idx all the articles before it have
\* been processed, and when it returns all of the batch has -- and what
\* happened to the earlier articles takes nothing away from a later one: an
\* article with a title the store does not hold can still pass the lookup,
\* and one that passed it can still be inserted while the store accepts
\* records.
C15_ItemIsolation ==
    \A t \in {1} :
       task[t].caller = "direct" =>
          /\ task[t].pc \in {"lookup", "create"} =>
                /\ task[t].idx \in 1..Len(task[t].articles)
                /\ task[t].articles[task[t].idx].complete
                /\ hist[t].processed = task[t].idx - 1
          /\ task[t].pc = "returned" => hist[t].processed = hist[t].found
          /\ (/\ task[t].pc = "lookup"
              /\ ~DedupHit(store, task[t].articles[task[t].idx].title)) =>
                ENABLED (LookupReturns(t, AllFaults) /\ task'[t].pc = "create")
          /\ (task[t].pc = "create" /\ Len(store) < MaxStore) =>
                ENABLED (/\ CreateReturns(t, AllFaults)
                         /\ store' = InsertRecord(store,
                                        task[t].articles[task[t].idx].title,
                                        task[t].articles[task[t].idx].category)
                         /\ task'[t].saved_count = task[t].saved_count + 1)

\* A call with two articles has returned: the embedding failed for the first
\* one, the second one was saved.
C15_Witness ==
    /\ task[1].caller = "direct"
    /\ task[1].pc = "returned"
    /\ hist[1].found = 2
    /\ hist[1].processed = 2
    /\ Len(log) = 2
    /\ log[1].outcome = "embedding_error"
    /\ log[2].outcome = "saved"
    /\ task[1].saved_count = 1

\* C16: the count returned by batch ingestion equals the number of records
\* the call added to the store: after every step of a call saved_count is the
\* growth of the store since the call began, between 0 and the batch length;
\* a step raises it by one exactly when its insert added a record (skipped
\* articles, failed embeddings and inserts returning no record leave it); and
\* the value returned is that count.
C16_SavedCountIsRecordsAdded ==
    [][\A t \in {1} :
          (task'[t] # task[t] /\ task'[t].caller = "direct") =>
             /\ task'[t].saved_count = Len(store') - hist'[t].len0
             /\ task'[t].saved_count \in 0..hist'[t].found
             /\ task[t].pc = "create" =>
                   /\ task'[t].saved_count - task[t].saved_count
                         = Len(store') - Len(store)
                   /\ Len(store') - Len(store) \in {0, 1}
             /\ task[t].pc = "lookup" =>
                   /\ task'[t].saved_count = task[t].saved_count
                   /\ store' = store
             /\ task'[t].pc = "returned" =>
                   task'[t].retval = PyInt(Len(store') - hist'[t].len0)]_vars

\* A call with two articles has returned 1: both inserts were made, one of
\* them returned no record although the store had room.
C16_Witness ==
    /\ task[1].caller = "direct"
    /\ task[1].pc = "returned"
    /\ hist[1].found = 2
    /\ hist[1].inserts = 2
    /\ task[1].retval = PyInt(1)
    /\ Len(store) = hist[1].len0 + 1
    /\ Len(store) < MaxStore

\* C17: an article missing one of the required fields is skipped with no
\* store access: a call stands at a lookup or an insert only for an article
\* that has all of them, the lookups it has made never exceed the articles of
\* the batch that have all fields (and equal them when it returns), embedding
\* calls and inserts follow lookups only, and a batch in which every article
\* misses a field returns 0 without any lookup, embedding call or insert.
C17_MissingFieldsNoStoreAccess ==
    \A t \in {1} :
       task[t].caller = "direct" =>
          /\ task[t].pc \in {"lookup", "create"} =>
                task[t].articles[task[t].idx].complete
          /\ task[t].pc = "lookup" => hist[t].lookups < hist[t].complete
          /\ hist[t].lookups <= hist[t].complete
          /\ hist[t].embeds <= hist[t].lookups
          /\ hist[t].inserts <= hist[t].embeds
          /\ task[t].saved_count <= hist[t].inserts
          /\ task[t].pc = "returned" => hist[t].lookups = hist[t].complete
          /\ hist[t].complete = 0 =>
                /\ task[t].pc = "returned"
                /\ task[t].retval = PyInt(0)
                /\ hist[t].lookups = 0

\* A call with two articles has returned: the first one missed a field and
\* was skipped, the second one was looked up and saved -- one lookup in all.
C17_Witness ==
    /\ task[1].caller = "direct"
    /\ task[1].pc = "returned"
    /\ hist[1].found = 2
    /\ hist[1].complete = 1
    /\ hist[1].lookups = 1
    /\ Len(log) = 2
    /\ log[1].outcome = "missing"
    /\ log[2].outcome = "saved"

\* C18: if the embedding provider fails for an article that passed the dedup
\* check, the article is not written: on the step on which db.create_article
\* ends with the embedding error the insert is not called, the store is
\* unchanged and saved_count is not raised.
C18_EmbeddingFailureWritesNothing ==
    [][\A t \in {1} :
          (/\ task[t].pc = "create"
           /\ task'[t] # task[t]
           /\ hist'[t].last = "embedding_error") =>
             /\ hist[t].last = "miss"
             /\ hist'[t].embeds = hist[t].embeds + 1
             /\ hist'[t].inserts = hist[t].inserts
             /\ store' = store
             /\ task'[t].saved_count = task[t].saved_count]_vars

\* A call with one article has returned 0: its title was not in the store,
\* the embedding call failed, no insert was made and the store has no record
\* with that title.
C18_Witness ==
    /\ task[1].caller = "direct"
    /\ task[1].pc = "returned"
    /\ hist[1].found = 1
    /\ hist[1].last = "embedding_error"
    /\ hist[1].embeds = 1
    /\ hist[1].inserts = 0
    /\ task[1].retval = PyInt(0)
    /\ Len(log) >= 1
    /\ CountTitle(store, log[Len(log)].title) = 0

\* C19: the article builder returns null (no article) for an empty or
\* whitespace-only report: whenever _convert_report_to_article has been called
\* with a text that is empty after trimming, its result is None.
C19_BlankReportGivesNull ==
    (/\ built.done
     /\ built.report # NoReport
     /\ strip(built.report) = <<>>) => built.article = NoArticle

\* C20: every article produced by the builder has a non-empty title of at
\* most 500 characters that contains no '#', and a non-empty content, for
\* every report text.
C20_BuiltArticleWellFormed ==
    (built.done /\ built.article # NoArticle) =>
       /\ built.article.title # <<>>
       /\ Len(built.article.title) <= TITLE_LIMIT
       /\ \A i \in 1..Len(built.article.title) : built.article.title[i] # "#"
       /\ built.article.content # <<>>

\* The cleaned first line of a report: the first line of the trimmed text with
\* the heading markers removed and the surrounding whitespace stripped.
CleanedFirstLine(report) == strip(RemoveHashes(FirstLine(strip(report))))

\* C21: title truncation: when the cleaned first line of the report is longer
\* than 500 characters the built title has exactly 500 characters, the first
\* 497 of the cleaned line followed by "..."; a cleaned first line of at most
\* 500 characters is the title unchanged.
C21_TitleTruncation ==
    (/\ built.done
     /\ built.report # NoReport
     /\ strip(FirstLine(strip(built.report))) # <<>>) =>
        LET c == CleanedFirstLine(built.report)
            t == built.article.title
        IN IF Len(c) > 500
           THEN /\ Len(t) = 500
                /\ SubSeq(t, 1, 497) = SubSeq(c, 1, 497)
                /\ SubSeq(t, 498, 500) = <<".", ".", ".">>
           ELSE t = c

\* The builder was given a report whose first line is a heading of 501
\* characters after cleaning, and built a title of 500 ending in "...".
C21_Witness ==
    /\ built.done
    /\ built.report # NoReport
    /\ Head(built.report) = "#"
    /\ Len(CleanedFirstLine(built.report)) = 501
    /\ Len(built.article.title) = 500
    /\ built.article.title[500] = "."
    /\ built.article.title[497] = "a"

\* The first line of a text that is not blank (the line around the first
\* character that is not whitespace), as a sequence of at most one line.
Max(S) == CHOOSE x \in S : \A y \in S : y <= x
Min(S) == CHOOSE x \in S : \A y \in S : x <= y
NonBlankLines(text) ==
    LET inked == {i \in 1..Len(text) : text[i] \notin Whitespace}
        p == Min(inked)
        from == Max({0} \cup {i \in 1..p : text[i] = "\n"}) + 1
        to == Min({Len(text) + 1} \cup {i \in p..Len(text) : text[i] = "\n"}) - 1
    IN IF inked = {} THEN <<>> ELSE <<SubSeq(text, from, to)>>

\* C22: title and category derivation: the title of the built article is the
\* first non-blank line of the report, cleaned (heading markers removed,
\* whitespace stripped, cut to 497 characters and "..." when longer than 500),
\* or "<sector display name> Sector Analysis - <today>" when the report has no
\* non-blank line; its category is the display name of the sector and its
\* content is the whole report, trimmed.
C22_TitleAndCategoryDerivation ==
    (built.done /\ built.report # NoReport) =>
        LET lines == NonBlankLines(built.report)
            c == strip(RemoveHashes(Head(lines)))
        IN /\ built.article.title =
                 IF lines = <<>>
                 THEN SectorName(built.sector)
                         \o <<" ", "S", "e", "c", "t", "o", "r", " ", "A", "n",
                              "a", "l", "y", "s", "i", "s", " ", "-", " ">>
                         \o current_date
                 ELSE IF Len(c) > 500
                      THEN SubSeq(c, 1, 497) \o <<".", ".", ".">>
                      ELSE c
           /\ built.article.category = SectorName(built.sector)
           /\ built.article.content = strip(built.report)
           /\ built.article.author = "AI Research Assistant"

\* The builder was given the report "a", line break, "b" for the technology
\* sector and built the title "a" with the category "Technology".
C22_Witness ==
    /\ built.done
    /\ built.report = <<"a", "\n", "b">>
    /\ sector_keys[built.sector] = "technology"
    /\ built.article.title = <<"a">>
    /\ built.article.category = <<"T", "e", "c", "h", "n", "o", "l", "o", "g", "y">>
    /\ built.article.content = <<"a", "\n", "b">>

\* Does the text hold the piece as a run of consecutive characters?
Contains(text, piece) ==
    \E i \in 0..(Len(text) - Len(piece)) :
        SubSeq(text, i + 1, i + Len(piece)) = piece

\* The topic keywords and the display names of the registry sectors.
Keywords(key) ==
    IF key = "technology"
    THEN {<<"A", "I">>,
          <<"m", "a", "c", "h", "i", "n", "e", " ", "l", "e", "a", "r", "n", "i", "n", "g">>,
          <<"s", "e", "m", "i", "c", "o", "n", "d", "u", "c", "t", "o", "r", "s">>,
          <<"c", "l", "o", "u", "d", " ", "c", "o", "m", "p", "u", "t", "i", "n", "g">>,
          <<"c", "y", "b", "e", "r", "s", "e", "c", "u", "r", "i", "t", "y">>,
          <<"f", "i", "n", "t", "e", "c", "h">>}
    ELSE {<<"f", "i", "n", "t", "e", "c", "h">>,
          <<"d", "i", "g", "i", "t", "a", "l", " ", "b", "a", "n", "k", "i", "n", "g">>,
          <<"c", "r", "y", "p", "t", "o", "c", "u", "r", "r", "e", "n", "c", "y">>,
          <<"b", "l", "o", "c", "k", "c", "h", "a", "i", "n">>,
          <<"i", "n", "v", "e", "s", "t", "m", "e", "n", "t", " ", "t", "r", "e", "n", "d", "s">>}

DisplayName(key) ==
    IF key = "technology" THEN <<"T", "e", "c", "h", "n", "o", "l", "o", "g", "y">> ELSE <<"F", "i", "n", "a", "n", "c", "e">>

\* C23 as stated: for every sector key of the registry the query built by
\* format_prompt contains the display name of the sector, at least one of its
\* topic keywords, and the date given (the current date when none is given).
C23_AsStated ==
    (prompt.done /\ prompt.sector \in RegistryKeys) =>
        /\ Contains(prompt.text, DisplayName(prompt.sector))
        /\ \E kw \in Keywords(prompt.sector) : Contains(prompt.text, kw)
        /\ Contains(prompt.text,
                    IF prompt.date = Omitted THEN current_date ELSE prompt.date)

\* C23, amended: for every sector key of the registry the query built by
\* format_prompt contains the display name of the sector and the date given
\* (the current date when none is given); it contains every topic keyword of
\* the sector when the caller gives no topics, and the topics the caller gave
\* in their place otherwise.
C23_QueryNamesSectorAndTopics ==
    (prompt.done /\ prompt.sector \in RegistryKeys) =>
        /\ Contains(prompt.text, DisplayName(prompt.sector))
        /\ Contains(prompt.text,
                    IF prompt.date = Omitted THEN current_date ELSE prompt.date)
        /\ prompt.topics = Omitted =>
              \A kw \in Keywords(prompt.sector) : Contains(prompt.text, kw)
        /\ prompt.topics # Omitted => Contains(prompt.text, prompt.topics)

\* format_prompt was called for the finance sector with a date and no topics,
\* and the query holds the keyword "blockchain".
C23_Witness ==
    /\ prompt.done
    /\ prompt.sector = "finance"
    /\ prompt.topics = Omitted
    /\ prompt.date = <<"0", "1">>
    /\ Contains(prompt.text, <<"b", "l", "o", "c", "k", "c", "h", "a", "i", "n">>)
    /\ Contains(prompt.text, <<"F", "i", "n", "a", "n", "c", "e", " ", "s", "e", "c", "t", "o", "r">>)

\* ---- search facade
\* The similarities of a result's rows to the query never increase.
DescendingSimilarity(rows, query) ==
    \A i, j \in 1..Len(rows) :
        i < j => Similarity(query, rows[i]) >= Similarity(query, rows[j])

HybridAnswered == reply.done /\ reply.op = "hybrid_search" /\ reply.status = "ok"

\* C24 as stated: for every query, every category value handed to hybrid_search
\* and every limit, the result holds only records of that category, at most
\* limit of them, in descending order of similarity.
C24_AsStated ==
    (HybridAnswered /\ reply.category # Omitted) =>
        /\ \A i \in 1..Len(reply.rows) : reply.rows[i].category = reply.category
        /\ Len(reply.rows) <= reply.limit
        /\ DescendingSimilarity(reply.rows, reply.text)

\* C24: for every query, every non-empty category and every limit, the result
\* of hybrid_search holds only records of that category, at most limit of them,
\* in descending order of similarity: it is the store's answer to the
\* similarity query with that category filter and that limit.  An empty or
\* omitted category puts no filter on the query.
C24_HybridCategoryAndLimit ==
    HybridAnswered =>
        /\ Len(reply.rows) <= reply.limit
        /\ DescendingSimilarity(reply.rows, reply.text)
        /\ reply.queries = 1
        /\ reply.category \notin {Omitted, <<>>} =>
              /\ \A i \in 1..Len(reply.rows) :
                    reply.rows[i].category = reply.category
              /\ reply.fault # "no_data" =>
                    reply.rows = hybrid_search_articles(store, reply.text,
                                     MATCH_THRESHOLD, reply.limit, reply.category)
        /\ (reply.category \in {Omitted, <<>>} /\ reply.fault # "no_data") =>
              reply.rows = hybrid_search_articles(store, reply.text,
                               MATCH_THRESHOLD, reply.limit, NoFilter)

\* A Finance search with limit 1 over three records close to the query: the
\* Technology record is left out, and of the two Finance records the later,
\* more similar one is the answer.
C24_Witness ==
    /\ HybridAnswered
    /\ reply.fault = "ok"
    /\ reply.text = <<"a">>
    /\ reply.category = SectorName(2)
    /\ reply.limit = 1
    /\ Len(store) = 3
    /\ store[1].title = <<"a", "b">> /\ store[1].category = SectorName(2)
    /\ store[2].title = <<"a">> /\ store[2].category = SectorName(2)
    /\ store[3].title = <<"a">> /\ store[3].category = SectorName(1)
    /\ reply.rows = <<store[2]>>

TitleAnswered ==
    reply.done /\ reply.op = "get_article_by_title" /\ reply.fault = "ok"

\* The condition of a title lookup: equality, or containment of the argument
\* without regard to case.
TitleCondition(r, title, exact_match) ==
    IF exact_match THEN r.title = title
    ELSE Contains(LowerText(r.title), LowerText(title))

\* C25: get_article_by_title(title, exact) returns a stored record whose title
\* equals the argument when exact is true, or contains it case-insensitively
\* when exact is false; it returns none iff no stored record satisfies that
\* condition, and the route answers 404 in the none case.
C25_TitleLookup ==
    TitleAnswered =>
        /\ reply.status = "ok" =>
              /\ Len(reply.rows) = 1
              /\ \E i \in 1..Len(store) : store[i] = reply.rows[1]
              /\ TitleCondition(reply.rows[1], reply.text, reply.exact_match)
        /\ reply.status = "none" <=>
              ~\E i \in 1..Len(store) :
                  TitleCondition(store[i], reply.text, reply.exact_match)
        /\ reply.status = "none" => reply.http = 404

\* The same for arguments without the pattern characters of the store.
PlainTitleLookup ==
    (\A i \in 1..Len(reply.text) : reply.text[i] \notin {"%", "_"}) =>
        C25_TitleLookup

CategoryAnswered ==
    reply.done /\ reply.op = "search_articles_by_category" /\ reply.status = "ok"

\* The stored records of a category, by position.
OfCategory(s, category) == {i \in 1..Len(s) : s[i].category = category}

\* C26: search_articles_by_category(category, limit) returns only stored
\* records whose category equals the argument exactly, each at most once, at
\* most limit of them, and every such record when no more than limit exist.
C26_CategorySearch ==
    CategoryAnswered =>
        LET n == Cardinality(OfCategory(store, reply.category)) IN
        /\ \A i \in 1..Len(reply.rows) :
              /\ reply.rows[i].category = reply.category
              /\ \E j \in OfCategory(store, reply.category) : store[j] = reply.rows[i]
        /\ \A i, j \in 1..Len(reply.rows) :
              i # j => reply.rows[i].id # reply.rows[j].id
        /\ Len(reply.rows) <= reply.limit
        /\ Len(reply.rows) = IF n < reply.limit THEN n ELSE reply.limit
        /\ reply.queries = 1

\* A Technology search with limit 3 over two Technology records and a Finance
\* record: both Technology records are returned and nothing else.
C26_Witness ==
    /\ CategoryAnswered
    /\ reply.category = SectorName(1)
    /\ reply.limit = 3
    /\ Len(store) = 3
    /\ Cardinality(OfCategory(store, SectorName(1))) = 2
    /\ Cardinality(OfCategory(store, SectorName(2))) = 1
    /\ Len(reply.rows) = 2

StoredIds(s) == {s[i].id : i \in 1..Len(s)}

\* A get_article request is answered in this step.
GetArticleStep == ~reply.done /\ reply'.done /\ reply'.op = "get_article"

\* C27: looking up an article id that is not in the store, with the store
\* answering, gives None from the facade and 404 from the route, never 500 and
\* never a record; the store is unchanged.
C27_UnknownIdIsNotFound ==
    [][GetArticleStep =>
          /\ store' = store
          /\ (reply'.id \notin StoredIds(store) /\ reply'.fault # "unreachable") =>
                /\ reply'.status = "none"
                /\ reply'.http = 404
                /\ reply'.rows = <<>>
          /\ (reply'.id \in StoredIds(store) /\ reply'.fault = "ok") =>
                /\ reply'.http = 200
                /\ reply'.rows = <<store[reply'.id]>>]_vars

\* GET /articles/2 with one stored record is answered 404.
C27_Witness ==
    /\ reply.done
    /\ reply.op = "get_article"
    /\ reply.fault = "ok"
    /\ Len(store) = 1
    /\ reply.id = 2
    /\ reply.http = 404
    /\ reply.status = "none"

\* ---- create and read back
\* The record db.create_article hands back: result.data[0], the inserted row.
Returned(s) == s[Len(s)]

\* What get_article(id) and get_article_by_title(title) hand back when the
\* store answers.
ReadById(s, article_id) == Facade("first", "ok", SelectById(s, article_id))
ReadByTitle(s, title) == Facade("first", "ok", SelectByTitle(s, title, TRUE))

\* Every stored record is read back by its id and by its exact title with its
\* own title.
ReadsBack(s) ==
    \A i \in 1..Len(s) :
        /\ ReadById(s, s[i].id).status = "ok"
        /\ ReadById(s, s[i].id).rows[1].title = s[i].title
        /\ ReadByTitle(s, s[i].title).status = "ok"
        /\ ReadByTitle(s, s[i].title).rows[1].title = s[i].title
        /\ get_article_by_title(s, s[i].title).title = s[i].title

\* C28: a successful creation, through POST /articles/ or through the
\* pipeline, returns a record that carries an id the store assigned (one no
\* other record has) and the submitted title; from then on get_article of that
\* id and the exact-title lookup of that title return a record with that title.
C28_CreateReadRoundTrip ==
    [][/\ ReadsBack(store')
       /\ store' # store =>
             /\ store' = Append(store, Returned(store'))
             /\ Returned(store').id \notin StoredIds(store)
             /\ ReadById(store', Returned(store').id).rows = <<Returned(store')>>
             /\ \A t \in Tasks :
                   task[t].pc = "create" =>
                      Returned(store').title = task[t].articles[task[t].idx].title
             /\ \A title \in Titles :
                   create_article(title, SectorName(1), AllFaults) =>
                      Returned(store').title = title]_vars

\* The pipeline has saved a second record, titled differently from the first:
\* it is read back by id 2 and by its title.
C28_Witness ==
    /\ Len(store) = 2
    /\ log # <<>>
    /\ log[Len(log)].outcome = "saved"
    /\ log[Len(log)].title = store[2].title
    /\ store[1].title # store[2].title
    /\ ReadById(store, 2).rows = <<store[2]>>
    /\ ReadByTitle(store, store[2].title).rows = <<store[2]>>

\* C29: every search-facade operation fails with an error, rather than
\* returning an empty or partial result, when the store is unreachable or
\* returns malformed data, and performs at most one store query per invocation.
C29_FacadeFailsOnStoreFault ==
    (reply.done /\ reply.fault \in StoreFaults) =>
        /\ reply.status = "error"
        /\ reply.http = 500
        /\ reply.queries <= 1

\* The parts of it that hold: an unreachable store is an error for every
\* operation, and no operation sends more than one query.
FacadeFailsWhenUnreachable ==
    reply.done =>
        /\ reply.queries <= 1
        /\ reply.fault = "unreachable" =>
              reply.status = "error" /\ reply.http = 500 /\ reply.queries = 1

\* ---- the store only grows
\* Task t's pipeline has an article saved in this step.
IngestSaved(t) == task[t].pc = "create" /\ hist'[t].last = "ok"

\* A read in this step: a request to the search facade is answered, or the
\* dedup lookup of a pipeline returns.
ReadStep ==
    \/ ~reply.done /\ reply'.done
    \/ \E t \in Tasks : task[t].pc = "lookup" /\ task'[t] # task[t]

\* C30: no step of the crawler, the pipeline or the search facade deletes a
\* stored record or changes a field of one: the records held before a step
\* are held after it, unchanged and in place.  Each successful ingest adds
\* exactly one record, nothing else but a POST adds any, and every read leaves
\* the store as it was.
C30_StoreOnlyGrows ==
    [][/\ Len(store') >= Len(store)
       /\ SubSeq(store', 1, Len(store)) = store
       /\ Len(store') <= Len(store) + 1
       /\ \A t \in Tasks : IngestSaved(t) => Len(store') = Len(store) + 1
       /\ ReadStep => store' = store
       /\ store' # store =>
             \/ \E t \in Tasks : IngestSaved(t)
             \/ \A t \in Tasks : task[t].pc \in {"idle", "returned"}]_vars

\* After a crawling cycle saved a record next to an earlier one, a request for
\* all articles is answered with both.
C30_Witness ==
    /\ Len(store) = 2
    /\ hist[1].last = "ok"
    /\ hist[1].inserts >= 1
    /\ reply.done
    /\ reply.op = "get_all_articles"
    /\ reply.rows = store

\* ---- all-sectors cycle
\* Task t runs an all-sectors cycle, in the loop or as a one-shot call.
InAllSectorsCycle(t) ==
    task[t].caller \in AllSectorCallers /\ task[t].pc \in CyclePositions

\* A research call of task t starts in this step.
ResearchStarts(t) ==
    task'[t].pc = "conduct" /\ (task[t].pc # "conduct" \/ task'[t].sector # task[t].sector)

\* Research calls outstanding: tasks standing at an await of the provider.
Outstanding == {t \in Tasks : task[t].pc \in {"conduct", "write"}}

\* C31: in an all-sectors cycle the sectors are taken one after the other in
\* the order of the registry, each once: the first research call is for the
\* first sector, every later one is for the sector after the one just
\* finished and starts only when that sector's articles are all processed and
\* its pacing delay of 30 has fully passed; the cycle is complete only after
\* the last sector, and at most one research call is outstanding.
C31_SectorsInOrder ==
    [][\A t \in Tasks :
          /\ (task'[t].caller \in AllSectorCallers /\ ResearchStarts(t)) =>
                IF task[t].pc \in CyclePositions /\ task[t].caller = task'[t].caller
                THEN /\ task[t].pc = "pacing"
                     /\ task[t].timer_dur = PACING_DELAY
                     /\ task[t].timer_el = PACING_DELAY
                     /\ task[t].articles = <<>>
                     /\ task'[t].sector = task[t].sector + 1
                     /\ task'[t].sector <= NSectors
                     /\ hist'[t].researched = task'[t].sector
                ELSE /\ task'[t].sector = 1
                     /\ hist'[t].researched = 1
          /\ (InAllSectorsCycle(t) /\ task'[t].pc \in {"interval", "returned"}) =>
                /\ task[t].pc = "pacing"
                /\ task[t].sector = NSectors
                /\ hist[t].researched = NSectors
          /\ InAllSectorsCycle(t) =>
                /\ task[t].sector \in 1..NSectors
                /\ KeyIndex(sector_keys[task[t].sector]) = task[t].sector
                /\ Cardinality(Outstanding) <= 1]_vars

\* The research call of the second sector is outstanding, the first sector
\* having found an article.
C31_Witness ==
    /\ task[1].caller = "test_all"
    /\ task[1].pc = "conduct"
    /\ task[1].sector = 2
    /\ hist[1].researched = 2
    /\ hist[1].found = 1

\* ---- stop and restart
\* stop_crawling() was called while loop t was running.
Stopped(t) == hist[t].first_stop # NoStop

\* The wait loop t is in (inter-cycle sleep or backoff) ends in this step.
WaitEnds(t) ==
    task[t].pc \in {"interval", "backoff"} /\ task'[t].pc \notin {"interval", "backoff"}

\* C32: a stop is never lost: a loop that was running when stop_crawling() was
\* called starts no further cycle after the wait it reaches, also when
\* start_periodic_crawling() is called again before that wait expires.
C32_StopNeverLost ==
    [][\A t \in Tasks :
          (Stopped(t) /\ WaitEnds(t)) => task'[t].pc \in Terminated]_vars

\* ---- where the loop sees a stop
\* The delay of the wait at position pos.
WaitLength(pos) == IF pos = "interval" THEN crawler.crawl_interval ELSE BACKOFF_DELAY

\* C33: the loop sees stop_crawling() only at the loop-condition check after
\* a completed inter-cycle wait or a completed backoff.  A stop changes
\* nothing in a loop; a loop that is not cancelled leaves a cycle only into the
\* inter-cycle wait of crawl_interval and exits only out of a wait that has
\* fully passed, the flag being cleared.
C33_StopSeenAtLoopCheckOnly ==
    [][\A t \in Tasks :
          /\ (is_running /\ ~is_running') => task'[t] = task[t]
          /\ (/\ task[t].caller \in LoopCallers
              /\ ~hist'[t].cancelled
              /\ task[t].pc \in LoopPositions) =>
                /\ (task[t].pc \in CyclePositions /\ task'[t].pc \notin CyclePositions) =>
                      /\ task'[t].pc = "interval"
                      /\ task'[t].timer_dur = crawler.crawl_interval
                      /\ task'[t].timer_el = 0
                /\ task'[t].pc \in Terminated =>
                      /\ task'[t].pc = "exited"
                      /\ task[t].pc \in {"interval", "backoff"}
                      /\ task[t].timer_dur = WaitLength(task[t].pc)
                      /\ task[t].timer_el = task[t].timer_dur
                      /\ ~is_running]_vars

\* A loop that was stopped in the middle of a cycle has exited after the whole
\* inter-cycle wait.
C33_Witness ==
    /\ task[1].pc = "exited"
    /\ task[1].caller = "all"
    /\ ~hist[1].cancelled
    /\ hist[1].first_stop.pc = "write"
    /\ hist[1].first_stop.sector = 1
    /\ task[1].timer_dur = CRAWL_INTERVAL
    /\ task[1].timer_el = CRAWL_INTERVAL

\* ---- one article per sector
\* Task t is in, or has finished, a cycle: its history is that cycle's.
CycleOf(t) ==
    task[t].caller \in LoopCallers \cup TestCallers /\ task[t].pc # "idle"

\* The sectors a cycle of task t goes through.
SectorsOf(t) == IF task[t].caller \in AllSectorCallers THEN NSectors ELSE 1

\* C34: each research-to-persist pass of a sector finds at most one article
\* and inserts at most one record: a single-sector cycle adds at most one
\* record to the store, an all-sectors cycle at most one per sector; a pass
\* that finds no article makes no lookup, no embedding call and no insert.
C34_OneArticlePerSector ==
    \A t \in Tasks :
        CycleOf(t) =>
            /\ Len(task[t].articles) <= 1
            /\ hist[t].researched <= SectorsOf(t)
            /\ hist[t].found <= hist[t].researched
            /\ hist[t].lookups <= hist[t].found
            /\ hist[t].embeds <= hist[t].lookups
            /\ hist[t].inserts <= hist[t].embeds
            /\ Len(store) - hist[t].len0 <= hist[t].inserts
            /\ Len(store) - hist[t].len0 <= SectorsOf(t)
            /\ Len(store) >= hist[t].len0
            /\ (task[t].articles = <<>> /\ task[t].pc \in CyclePositions) =>
                  task[t].pc \in {"conduct", "write", "pacing"}
            /\ hist[t].found = 0 =>
                  /\ hist[t].lookups = 0
                  /\ hist[t].inserts = 0
                  /\ Len(store) = hist[t].len0

\* An all-sectors cycle has returned: both sectors found an article and both
\* articles were stored.
C34_Witness ==
    /\ task[1].caller = "test_all"
    /\ task[1].pc = "returned"
    /\ hist[1].researched = NSectors
    /\ hist[1].found = NSectors
    /\ hist[1].inserts = NSectors
    /\ Len(store) = hist[1].len0 + NSectors

\* ---- the duplicate check fails closed
\* The step in which the exact-title lookup of task t raises a store error.
LookupRaises(t) ==
    /\ task[t].pc = "lookup"
    /\ hist'[t].lookups = hist[t].lookups + 1
    /\ hist'[t].last = "lookup_error"

\* C35: the duplicate check is fail-closed: when the exact-title lookup
\* raises for an article, no embedding is computed and no insert is attempted
\* for it, the store is unchanged, the article is not counted as saved, and
\* the error stays inside process_and_save_articles, which goes on with the
\* next article or returns its count.
C35_LookupErrorFailsClosed ==
    [][\A t \in Tasks :
         LookupRaises(t) =>
            /\ store' = store
            /\ hist'[t].embeds = hist[t].embeds
            /\ hist'[t].inserts = hist[t].inserts
            /\ task'[t].saved_count = task[t].saved_count
            /\ task'[t].pc \in {"lookup", "returned"}
            /\ task'[t].pc = "lookup" =>
                  /\ task'[t].idx > task[t].idx
                  /\ task'[t].articles = task[t].articles
            /\ task'[t].pc = "returned" =>
                  /\ task'[t].retval = PyInt(task[t].saved_count)
                  /\ \A k \in (task[t].idx + 1)..Len(task[t].articles) :
                        ~task[t].articles[k].complete]_vars

\* A batch of one new article whose lookup raised has returned: nothing was
\* embedded, inserted or counted.
C35_Witness ==
    /\ task[1].caller = "direct"
    /\ task[1].pc = "returned"
    /\ task[1].retval = PyInt(0)
    /\ hist[1].found = 1
    /\ hist[1].lookups = 1
    /\ hist[1].last = "lookup_error"
    /\ hist[1].embeds = 0
    /\ hist[1].inserts = 0
    /\ store = <<>>

\* ---- one pacing delay per sector
\* The positions of one sector's work, from research to the last insert.
SectorWork == {"conduct", "write", "lookup", "create"}

\* C36: in an all-sectors cycle the pacing delay follows every sector, the
\* last one and the ones without an article included, and is taken once per
\* sector: the work of a sector ends only in the pacing delay of that sector,
\* the pacing delay is entered only from the work of its sector and is left,
\* once its whole length has passed, for the next sector or, after the last
\* sector, for the end of the cycle; in the periodic loop the inter-cycle
\* wait begins only there.
C36_PacingAfterEverySector ==
    [][\A t \in Tasks :
         (task[t].caller \in AllSectorCallers /\ task'[t].caller = task[t].caller
            /\ ~hist'[t].cancelled) =>
            /\ (task[t].pc \in SectorWork /\ task'[t].pc \notin SectorWork) =>
                  /\ task'[t].pc = "pacing"
                  /\ task'[t].sector = task[t].sector
                  /\ task'[t].timer_dur = PACING_DELAY
                  /\ task'[t].timer_el = 0
            /\ (task[t].pc \in SectorWork /\ task'[t].pc \in SectorWork) =>
                  task'[t].sector = task[t].sector
            /\ (task[t].pc # "pacing" /\ task'[t].pc = "pacing") =>
                  task[t].pc \in SectorWork
            /\ (task[t].pc = "pacing" /\ task'[t].pc # "pacing") =>
                  /\ task[t].timer_dur = PACING_DELAY
                  /\ task[t].timer_el = PACING_DELAY
                  /\ IF task[t].sector < NSectors
                     THEN /\ task'[t].pc = "conduct"
                          /\ task'[t].sector = task[t].sector + 1
                     ELSE IF task[t].caller \in LoopCallers
                     THEN /\ task'[t].pc = "interval"
                          /\ task'[t].timer_dur = crawler.crawl_interval
                          /\ task'[t].timer_el = 0
                     ELSE task'[t].pc = "returned"
            /\ (task[t].pc # "interval" /\ task'[t].pc = "interval") =>
                  /\ task[t].pc = "pacing"
                  /\ task[t].sector = NSectors
            /\ (task[t].pc = "pacing" /\ task'[t].pc = "pacing") =>
                  /\ task'[t].sector = task[t].sector
                  /\ task'[t].timer_el >= task[t].timer_el]_vars

\* The periodic loop in all-sectors mode is in the pacing delay of the last
\* sector of a cycle in which no sector produced an article.
C36_Witness ==
    /\ task[1].caller = "all"
    /\ task[1].pc = "pacing"
    /\ task[1].sector = NSectors
    /\ task[1].timer_dur = PACING_DELAY
    /\ task[1].timer_el = PACING_DELAY
    /\ hist[1].researched = NSectors
    /\ hist[1].found = 0
    /\ hist[1].lookups = 0

====
